---- MODULE Spec2Model ----
(***************************************************************************)
(* Model of the Lightsail deployment server: the SessionManager (session   *)
(* store, idle timers, event emitter), the tools createVm, redeployProject,*)
(* deleteVm, forceDeleteVm, getVmStatus and their background workflows,    *)
(* and the SSE endpoint.                                                   *)
(*                                                                         *)
(* Node runs one callback at a time: an action is one run-to-completion    *)
(* segment of code, from the resumption after an await up to the next      *)
(* await.  External calls (Lightsail, Cloudflare, SSH) resolve or reject   *)
(* nondeterministically.                                                   *)
(***************************************************************************)
EXTENDS Integers, Sequences, FiniteSets, TLC

\* ---------------------------------------------------------------- bounds
MaxObjs == 2        \* createSession calls in one behaviour
MaxTasks == 2       \* background workflows launched in one behaviour
MaxCalls == 1       \* forceDeleteVm calls in one behaviour
MaxConns == 2       \* SSE connections opened in one behaviour
MaxEvents == 2      \* events published per id by the event-bus driver

\* ------------------------------------------------------ program constants
\* SESSION_TIMEOUT is 30 minutes; one tick of the model clock is 15 minutes.
SESSION_TIMEOUT == 2
\* The 5 s grace delay of deleteVmAsync, in ticks of 15 minutes.
GRACE_DELAY == 0
\* Length of the built-in default key of EncryptionService.
DefaultKeyLen == 41
RequiredKeyLen == 32
\* waitForInstanceRunning's default maxAttempts.
DefaultMaxAttempts == 24

Ids == {"d1", "d2"}
\* The ids that the tool calls of the workflow specification are made with.
CallIds == {"d1"}
Names == {"app"}
None == "none"

Statuses == {"deploying", "success", "failed", "redeploying"}

VARIABLES
    sessions,         \* SessionManager.sessions: id -> handle of the session object, 0 when absent
    objs,             \* the session objects ever created, by handle
    sessionTimeouts,  \* SessionManager.sessionTimeouts: id -> <<ticks left>> of the mapped timer, <<>> when none
    pending,          \* armed timers that are in no map: idle timers whose map entry was
                      \* overwritten (obj is the session they were armed for) and grace timers
    listeners,        \* EventEmitter listeners: channel -> sequence of connection handles
    conns,            \* SSE connections: channel, whether open, the frames written to the
                      \* response (rx), and the value of seqno at registration and at close
    seqno,            \* per id, the number of events the event-bus driver has published
    tasks,            \* the background workflows launched, with their position and locals
    instances,        \* Lightsail: names of the instances that exist
    dnsRecords,       \* Cloudflare: instance names that have a DNS record
    envKeyLen,        \* length of process.env.ENCRYPTION_KEY, 0 when unset
    idle,             \* per session object, the ticks of the store specification's clock
                      \* since its creation or last updateSession
    svc,              \* the service call made in the services specification: its
                      \* arguments and what it returned
    mcp               \* the MCP endpoint: the transports map, the transports
                      \* constructed, and the answer to the last request

vars == <<sessions, objs, sessionTimeouts, pending, listeners, conns, seqno,
          tasks, instances, dnsRecords, envKeyLen, idle, svc, mcp>>

\* ------------------------------------------------------------- helpers
NoCall == [op |-> "none"]
Truthy(v) == v # None

Merge(rec, upd) ==
    [k \in DOMAIN rec |-> IF k \in DOMAIN upd THEN upd[k] ELSE rec[k]]

Channel(prefix, id) == <<prefix, id>>
Channels == {Channel(p, id) : p \in {"deployment", "session"}, id \in Ids}

Event(type, msg) == [type |-> type, msg |-> msg]

\* The state the SessionManager's methods read and write, threaded through
\* the calls of one run-to-completion segment.  ev collects the events
\* published in the segment.
Store ==
    [sessions |-> sessions, objs |-> objs, sessionTimeouts |-> sessionTimeouts,
     pending |-> pending, conns |-> conns, ev |-> <<>>]

\* ------------------------------------------------------- SessionManager
setSessionTimeout(S, id) ==
    [S EXCEPT !.sessionTimeouts[id] = <<SESSION_TIMEOUT>>]

refreshSessionTimeout(S, id) ==
    \* clearTimeout on the mapped timer, then a fresh one
    setSessionTimeout([S EXCEPT !.sessionTimeouts[id] = <<>>], id)

\* Variant of the initial session state that already carries a log entry.
NewSessionWithLog(id, cfg) ==
    [id |-> id, status |-> "deploying", instanceName |-> None, publicIp |-> None,
     dnsName |-> None, logs |-> <<"created">>, error |-> None, lastDeployedAt |-> 0,
     config |-> cfg]

\* createdAt is not modelled.  A Date is modelled by its order: lastDeployedAt
\* is the number of times the field has been written, 0 while it is undefined.
NewSession(id, cfg) ==
    [id |-> id, status |-> "deploying", instanceName |-> None, publicIp |-> None,
     dnsName |-> None, logs |-> <<>>, error |-> None, lastDeployedAt |-> 0,
     config |-> cfg]

createSession(S, id, cfg) ==
    LET h == Len(S.objs) + 1
        \* sessionTimeouts.set overwrites the entry: a timer that was mapped
        \* is not cleared and stays pending in the event loop
        leaked == IF S.sessionTimeouts[id] # <<>>
                  THEN <<[kind |-> "idle", id |-> id, obj |-> S.sessions[id],
                           left |-> S.sessionTimeouts[id][1]]>>
                  ELSE <<>>
        S1 == [S EXCEPT !.objs = Append(@, NewSession(id, cfg)),
                        !.sessions[id] = h,
                        !.pending = @ \o leaked]
    IN  setSessionTimeout(S1, id)

getSession(S, id) == S.sessions[id]

\* new Date(), as the value to write into the lastDeployedAt of id's session.
newDate(S, id) ==
    IF S.sessions[id] # 0 THEN S.objs[S.sessions[id]].lastDeployedAt + 1 ELSE 1

\* Variant of updateSession that stores a session when the id has none.
updateSessionUpserts(S, id, upd) ==
    LET h == S.sessions[id] IN
    IF h # 0
    THEN refreshSessionTimeout(
             [S EXCEPT !.objs[h] = Merge(@, upd)], id)
    ELSE setSessionTimeout(
             [S EXCEPT !.objs = Append(@, Merge(NewSession(id, [name |-> "app"]), upd)),
                       !.sessions[id] = Len(S.objs) + 1], id)

updateSession(S, id, upd) ==
    LET h == S.sessions[id] IN
    IF h # 0
    THEN refreshSessionTimeout(
             [S EXCEPT !.objs[h] = Merge(@, upd)], id)
    ELSE S

deleteSession(S, id) ==
    [S EXCEPT !.sessions[id] = 0, !.sessionTimeouts[id] = <<>>]

\* Variant of emit that calls only the first listener of the channel.
DeliverToFirst(cs, hs, e) ==
    IF hs = <<>> THEN cs
    ELSE [cs EXCEPT ![Head(hs)].rx = Append(@, e)]

\* EventEmitter.emit: the listeners of the channel are called in the order
\* of their registration; an SSE handler writes the event to its response.
RECURSIVE Deliver(_, _, _)
Deliver(cs, hs, e) ==
    IF hs = <<>> THEN cs
    ELSE Deliver([cs EXCEPT ![Head(hs)].rx = Append(@, e)], Tail(hs), e)

\* Variant of emitEvent that emits on the deployment channel of every id.
emitEventToAll(S, id, e) ==
    [S EXCEPT !.conns = [c \in DOMAIN S.conns |->
                            IF S.conns[c].open /\ S.conns[c].channel[1] = "deployment"
                            THEN [S.conns[c] EXCEPT !.rx = Append(@, e)]
                            ELSE S.conns[c]],
              !.ev = Append(@, e)]

emitEvent(S, id, e) ==
    [S EXCEPT !.conns = Deliver(@, listeners[Channel("deployment", id)], e),
              !.ev = Append(@, e)]

emitProgress(S, id, msg) == emitEvent(S, id, Event("progress", msg))

\* Variant of emitLog that puts the entry in front of the session's logs.
emitLogPrepends(S, id, log) ==
    LET h == getSession(S, id)
        S1 == IF h # 0
              THEN updateSession(S, id, [logs |-> <<log>> \o S.objs[h].logs])
              ELSE S
    IN  emitEvent(S1, id, Event("log", log))

emitLog(S, id, log) ==
    LET h == getSession(S, id)
        S1 == IF h # 0
              THEN updateSession([S EXCEPT !.objs[h].logs = Append(@, log)], id,
                                 [logs |-> Append(S.objs[h].logs, log)])
              ELSE S
    IN  emitEvent(S1, id, Event("log", log))

\* Variant of emitError that sets the status and drops the message.
emitErrorDropsMessage(S, id, error) ==
    emitEvent(updateSession(S, id, [status |-> "failed"]),
              id, Event("error", error))

\* Variant of emitError that publishes the event and leaves the status.
emitErrorEventOnly(S, id, error) == emitEvent(S, id, Event("error", error))

emitError(S, id, error) ==
    emitEvent(updateSession(S, id, [status |-> "failed", error |-> error]),
              id, Event("error", error))

emitComplete(S, id, data) ==
    emitEvent(updateSession(S, id, [status |-> "success"]),
              id, Event("complete", data))

\* Variant of getAllSessions that returns every session object ever created.
getAllSessionsEver(S) == {S.objs[h] : h \in DOMAIN S.objs}

getAllSessions(S) == {S.objs[S.sessions[id]] : id \in {i \in Ids : S.sessions[i] # 0}}

getSessionsByStatus(S, status) == {session \in getAllSessions(S) : session.status = status}

\* The entries of the getAllDeployments tool, one per session returned by
\* getAllSessions.
getAllDeployments(S) ==
    {[deploymentId |-> session.id, status |-> session.status,
      instanceName |-> session.instanceName, publicIp |-> session.publicIp,
      dnsName |-> session.dnsName,
      url |-> IF Truthy(session.dnsName) THEN <<"https://", session.dnsName>> ELSE <<>>,
      lastDeployedAt |-> session.lastDeployedAt, error |-> session.error,
      projectName |-> session.config.name] : session \in getAllSessions(S)}

\* ------------------------------------------------------------ services
\* EncryptionService's constructor: the key is ENCRYPTION_KEY or the
\* built-in default, and must be exactly 32 characters long.
EncryptionKeyLen == IF envKeyLen # 0 THEN envKeyLen ELSE DefaultKeyLen
EncryptionServiceThrows == EncryptionKeyLen # RequiredKeyLen

\* What one getInstance poll can report: the instance's state and whether it
\* has a public address, or a throw.
Poll(state, hasIp) == [state |-> state, ip |-> hasIp]
PollThrows == [state |-> "throws", ip |-> FALSE]
PollOutcomes == {Poll(st, ip) : st \in {"pending", "running"}, ip \in BOOLEAN} \cup {PollThrows}

\* Variant of isReady that looks at the state only.
isReadyStateOnly(instanceInfo) == instanceInfo.state = "running"

\* The test that ends the wait: state running together with a public address.
isReady(instanceInfo) == instanceInfo.state = "running" /\ instanceInfo.ip

\* waitForInstanceRunning(name, maxAttempts) on the polls that getInstance
\* answers, in order: the address at the first poll that reports running
\* together with a public address, a throw when a poll throws, a timeout
\* after maxAttempts unready polls.  attempts counts the polls made.
RECURSIVE waitLoop(_, _, _)
waitLoop(polls, attempts, maxAttempts) ==
    IF ~(attempts < maxAttempts)
    THEN [res |-> "Timeout waiting for instance to be ready", polled |-> attempts]
    ELSE LET instanceInfo == polls[attempts + 1] IN
         IF instanceInfo = PollThrows
         THEN [res |-> "Failed to check instance status", polled |-> attempts + 1]
         ELSE IF isReady(instanceInfo)
         THEN [res |-> "ip", polled |-> attempts + 1]
         ELSE waitLoop(polls, attempts + 1, maxAttempts)

waitForInstanceRunning(polls, maxAttempts) == waitLoop(polls, 0, maxAttempts)

\* The runs of polls the workflow specification draws: ready at once, ready
\* at the second poll, a throw, and never ready.
PollRuns ==
    {[k \in 1..DefaultMaxAttempts |-> Poll("running", TRUE)],
     [k \in 1..DefaultMaxAttempts |->
         IF k = 1 THEN Poll("pending", FALSE) ELSE Poll("running", TRUE)],
     [k \in 1..DefaultMaxAttempts |-> PollThrows],
     [k \in 1..DefaultMaxAttempts |-> Poll("running", FALSE)]}

\* executeSetupCommands runs its commands in order; executeCommand never
\* throws while connected: a failed execCommand becomes an error entry.
NumSetupCommands == 5
CommandOutcomes == {"ok", "nonzero", "threw"}
CommandLog(k, o) ==
    [cmd |-> k, type |-> IF o = "threw" THEN "error" ELSE "command",
     code |-> IF o = "ok" THEN 0 ELSE 1]
ExtraErrorLog(k) == [cmd |-> k, type |-> "error", code |-> -1]

\* Variant of executeSetupCommands that stops at the first failed command.
RECURSIVE executeSetupCommandsStopAtFailure(_, _)
executeSetupCommandsStopAtFailure(k, oc) ==
    IF k > NumSetupCommands THEN <<>>
    ELSE LET log == CommandLog(k, oc[k]) IN
         IF log.code # 0 THEN <<log, ExtraErrorLog(k)>>
         ELSE <<log>> \o executeSetupCommandsStopAtFailure(k + 1, oc)

RECURSIVE executeSetupCommands(_, _)
executeSetupCommands(k, oc) ==
    IF k > NumSetupCommands THEN <<>>
    ELSE LET log == CommandLog(k, oc[k]) IN
         (IF log.code # 0 THEN <<log, ExtraErrorLog(k)>> ELSE <<log>>)
            \o executeSetupCommands(k + 1, oc)

executeRedeployCommands(o) == <<CommandLog(1, o)>>

\* The outcome vectors the workflow specification draws: every command
\* succeeds, or the first exits non-zero and the last one's execCommand throws.
SetupOutcomes ==
    {[k \in 1..NumSetupCommands |-> "ok"],
     [k \in 1..NumSetupCommands |->
         IF k = 1 THEN "nonzero" ELSE IF k = NumSetupCommands THEN "threw" ELSE "ok"]}

RECURSIVE EmitLogs(_, _, _)
EmitLogs(S, id, logs) ==
    IF logs = <<>> THEN S
    ELSE CHOOSE R \in {EmitLogs(S1, id, Tail(logs)) : S1 \in {emitLog(S, id, Head(logs))}} : TRUE

\* ------------------------------------------------------- text and names
\* A string is the sequence of its pieces: the literal parts of a template
\* and the values interpolated into it.  A repository URL is the sequence
\* of its '/'-separated segments, which is what split('/') returns; a
\* segment ending in ".git" has ".git" as its last piece.  No string splits
\* into no segment at all, so the empty sequence stands for undefined.
MaxSegments == 2
Missing == <<>>
EmptyString == <<<<>>>>
Project == <<"project">>
Segments == {<<>>, <<".git">>, <<"my-app">>, <<"my-app", ".git">>, <<"my-app", ".git", ".git">>}
UrlOf(path) == <<<<"https:">>, <<>>, <<"example.com">>>> \o path
Urls == {UrlOf(path) : path \in UNION {[1..n -> Segments] : n \in 1..MaxSegments}}
            \cup {EmptyString}
Last(s) == s[Len(s)]

\* Variant of stripGit that removes every trailing ".git".
RECURSIVE stripGitAll(_)
stripGitAll(seg) ==
    IF seg # <<>> /\ Last(seg) = ".git" THEN stripGitAll(SubSeq(seg, 1, Len(seg) - 1)) ELSE seg

\* replace(/\.git$/, ''): one ".git" at the end of the string is removed.
stripGit(seg) ==
    IF seg # <<>> /\ Last(seg) = ".git" THEN SubSeq(seg, 1, Len(seg) - 1) ELSE seg

\* The create_vm handler's extractProjectName(url).
extractProjectName(url) ==
    IF url = Missing \/ url = EmptyString THEN Project
    ELSE LET projectName == stripGit(Last(url)) IN
         IF projectName # <<>> THEN projectName ELSE Project

\* deployVmAsync's instanceName in tools/delete-vm.ts: config.projectName
\* if it is non-empty, the repository name otherwise; split on an undefined
\* URL throws.
instanceNameOf(config) ==
    IF config.githubRepoUrl = Missing
    THEN [threw |-> TRUE, value |-> <<"TypeError">>]
    ELSE LET stripped == stripGit(Last(config.githubRepoUrl))
             repoName == IF stripped # <<>> THEN stripped ELSE Project
         IN  [threw |-> FALSE,
              value |-> IF config.projectName # <<>> THEN config.projectName ELSE repoName]

\* deployVmAsync's instanceName in tools/create-vm.ts: the repository name
\* if it is non-empty, config.projectName otherwise.
instanceNameOfRepo(config) ==
    IF config.githubRepoUrl = Missing
    THEN [threw |-> TRUE, value |-> <<"TypeError">>]
    ELSE LET stripped == stripGit(Last(config.githubRepoUrl))
         IN  [threw |-> FALSE,
              value |-> IF stripped # <<>> THEN stripped ELSE config.projectName]

\* The arguments of the create_vm tool: the repository URL, the project
\* name (empty when none is given) and the GitHub token, which is the
\* secret among them.
Pats == {"ghp_A", "ghp_B"}
ProjectNames == {<<>>, <<"shop">>}
CreateVmArgs == [githubRepoUrl : Urls \cup {Missing}, projectName : ProjectNames, githubPat : Pats]

\* The create_vm handler: it rejects a call without a repository URL and
\* builds the configuration of the others, the project name being the one
\* given or else the name extracted from the URL.
createVmHandler(args) ==
    IF args.githubRepoUrl = Missing \/ args.githubRepoUrl = EmptyString
    THEN [rejected |-> TRUE]
    ELSE [rejected |-> FALSE,
          config |-> [githubRepoUrl |-> args.githubRepoUrl,
                      githubPat |-> args.githubPat,
                      projectName |-> IF args.projectName # <<>> THEN args.projectName
                                      ELSE extractProjectName(args.githubRepoUrl),
                      domain |-> "opengig.work"]]

\* The command strings of executeSetupCommands.
setupCommands(config, instanceName) ==
    LET repoUrl == config.githubRepoUrl
        stripped == stripGit(Last(repoUrl))
        repoName == stripped
        owner == IF Len(repoUrl) >= 4 THEN repoUrl[4] ELSE <<>>
    IN  << <<"export VM_INSTANCE_NAME=">> \o instanceName
              \o <<" && git clone https://x-access-token:", config.githubPat, "@github.com/">>
              \o owner \o <<"/">> \o repoName \o <<".git">>,
           <<"add the package repositories">>,
           <<"apt-get update && apt-get install">>,
           <<"tee /etc/caddy/Caddyfile ">> \o instanceName \o <<".", config.domain>>,
           <<"docker compose up -d">> >>

\* The log entry of executeCommand with its text: message and command.
executeCommand(command, k, o) ==
    LET log == CommandLog(k, o) IN
    [cmd |-> log.cmd, type |-> log.type, code |-> log.code,
     message |-> IF o = "threw" THEN <<"Command failed: ", "error.message">>
                 ELSE <<"Executed: ">> \o command,
     command |-> command]

\* The entries executeSetupCommands returns, with their text.
setupLogs(config, instanceName, oc) ==
    LET logs == executeSetupCommands(1, oc)
        commands == setupCommands(config, instanceName)
    IN  [j \in DOMAIN logs |->
            IF logs[j] = ExtraErrorLog(logs[j].cmd)
            THEN [cmd |-> logs[j].cmd, type |-> "error", code |-> -1,
                  message |-> <<"Command failed with exit code ", "stderr">>,
                  command |-> <<>>]
            ELSE executeCommand(commands[logs[j].cmd], logs[j].cmd, oc[logs[j].cmd])]

\* ----------------------------------------------------------- SSH keys
\* An SSH key is the sequence of its pieces: the two characters backslash
\* and n, a newline, a double quote, the marker -----BEGIN, or other text.
MaxKeyPieces == 4
EscapedNewline == "\\n"
Newline == "\n"
Quote == "\""
BeginMarker == "-----BEGIN"
KeyPieces == {EscapedNewline, Newline, Quote, BeginMarker, "key-text"}
SshKeys == UNION {[1..n -> KeyPieces] : n \in 0..MaxKeyPieces}

\* replace(/\\n/g, '\n'): every backslash-n becomes a newline.
replaceEscapedNewlines(key) ==
    [k \in DOMAIN key |-> IF key[k] = EscapedNewline THEN Newline ELSE key[k]]

\* Variant of stripQuotes that removes every quote at either end.
RECURSIVE stripAllQuotes(_)
stripAllQuotes(key) ==
    IF key # <<>> /\ Head(key) = Quote THEN stripAllQuotes(Tail(key))
    ELSE IF key # <<>> /\ key[Len(key)] = Quote
    THEN stripAllQuotes(SubSeq(key, 1, Len(key) - 1))
    ELSE key

\* replace(/^"|"$/g, ''): a quote at the start of the string and a quote at
\* its end are removed.
stripQuotes(key) ==
    LET unquoted == IF key # <<>> /\ Head(key) = Quote THEN Tail(key) ELSE key IN
    IF unquoted # <<>> /\ unquoted[Len(unquoted)] = Quote
    THEN SubSeq(unquoted, 1, Len(unquoted) - 1)
    ELSE unquoted

processedKey(sshKey) == stripQuotes(replaceEscapedNewlines(sshKey))

includes(key, piece) == \E k \in DOMAIN key : key[k] = piece

\* SSHService.connect on a new service: what it throws, whether
\* ssh.connect was called and with which key, and the connected flag it
\* leaves.  reachable is whether ssh.connect succeeds.
connect(sshKey, reachable) ==
    LET key == processedKey(sshKey) IN
    IF ~includes(key, BeginMarker)
    THEN [threw |-> TRUE,
          message |-> <<"SSH connection failed: ",
                        "SSH key must be in PEM format starting with -----BEGIN">>,
          attempted |-> FALSE, privateKey |-> <<>>, connected |-> FALSE]
    ELSE IF reachable
    THEN [threw |-> FALSE, message |-> <<>>,
          attempted |-> TRUE, privateKey |-> key, connected |-> TRUE]
    ELSE [threw |-> TRUE, message |-> <<"SSH connection failed: ", "error.message">>,
          attempted |-> TRUE, privateKey |-> key, connected |-> FALSE]

\* SSHService.executeCommand's guard on a service with the given flag.
executeCommandGuard(connected) ==
    IF ~connected THEN "SSH not connected" ELSE "execCommand"

\* --------------------------------------------------------------- tasks
\* One invocation of an async function: pc is the await it is suspended at,
\* obj the session object it holds a reference to, name, ip, ssh and
\* errorMessage its locals, arg the instance name passed to the call in
\* flight, failed the external calls of the run that threw, ev the events
\* the run has published.
NewTask(kind, id) ==
    [kind |-> kind, id |-> id, pc |-> "done", obj |-> 0, name |-> None,
     ip |-> None, ssh |-> "null", errorMessage |-> None,
     arg |-> None, failed |-> {}, ev |-> <<>>]

\* Variant of disconnect that leaves the connection as it is.
disconnectKeepsOpen(t) == t

disconnect(t) == IF t.ssh = "connected" THEN [t EXCEPT !.ssh = "closed"] ELSE t

\* The settling of an async function's promise is a microtask, run before
\* any other callback of the event loop: a rejected promise runs its .catch
\* handler, a function that has run to its end ("done") releases its frame.
MicrotasksDrained == \A i \in DOMAIN tasks : tasks[i].pc \notin {"rejected", "done"}

\* What is left of an invocation whose promise has settled.
Settled(t) == [NewTask(t.kind, t.id) EXCEPT !.pc = "settled"]

Launched(kinds) == {i \in DOMAIN tasks : tasks[i].kind \in kinds}
CanLaunch == Cardinality(Launched({"deploy", "redeploy", "delete"})) < MaxTasks
CanCall == Cardinality(Launched({"force"})) < MaxCalls
TaskSlots == 1..(MaxTasks + MaxCalls)
\* Timers in no map: one per overwritten map entry, one per deletion workflow.
TimerSlots == 1..(MaxObjs + MaxTasks)

\* One segment ends: S is the store it leaves, T the tasks.
Commit(S, T, inst, dns) ==
    /\ sessions' = S.sessions
    /\ objs' = S.objs
    /\ sessionTimeouts' = S.sessionTimeouts
    /\ pending' = S.pending
    /\ conns' = S.conns
    /\ tasks' = T
    /\ instances' = inst
    /\ dnsRecords' = dns
    /\ UNCHANGED <<listeners, seqno, envKeyLen, idle, svc, mcp>>

\* A segment of task i ends in r.t, having published r.S.ev.
Step(i, r, inst, dns) ==
    \E res \in {r} :
        Commit(res.S, [tasks EXCEPT ![i] = [res.t EXCEPT !.ev = @ \o res.S.ev]], inst, dns)

\* An async function is called: it runs to its first await.
Launch(r, inst, dns) ==
    \E res \in {r} :
        Commit(res.S, Append(tasks, [res.t EXCEPT !.ev = @ \o res.S.ev]), inst, dns)

\* The promise of an invocation that ran to its end settles.
PromiseSettles(i) ==
    /\ i \in DOMAIN tasks
    /\ tasks[i].pc = "done"
    /\ tasks' = [tasks EXCEPT ![i] = Settled(tasks[i])]
    /\ UNCHANGED <<sessions, objs, sessionTimeouts, pending, listeners, conns, seqno,
                   instances, dnsRecords, envKeyLen, idle, svc, mcp>>

\* ------------------------------------------------- provisioning workflow
\* deployVmAsync from its start to its first await.
deployVmAsyncStart(S, t) ==
    IF EncryptionServiceThrows
    THEN [S |-> S,
          t |-> [t EXCEPT !.pc = "rejected",
                          !.errorMessage = "Encryption key must be exactly 32 characters long"]]
    ELSE LET S1 == emitProgress(S, t.id, "Initializing deployment...")
             instanceName == S.objs[t.obj].config.name
             S2 == emitProgress(S1, t.id, "Creating Lightsail instance")
         IN  [S |-> S2,
              t |-> [t EXCEPT !.pc = "createInstance", !.ssh = "new",
                              !.name = instanceName, !.arg = instanceName]]

\* The catch block of deployVmAsync up to its first await.
deployCatch(S, t, errorMessage) ==
    LET S1 == emitError(S, t.id, errorMessage)
        h == getSession(S1, t.id)
        t1 == [t EXCEPT !.errorMessage = errorMessage]
    IN  IF h # 0 /\ Truthy(S1.objs[h].instanceName)
        THEN [S |-> emitProgress(S1, t.id, "Cleaning up failed deployment..."),
              t |-> [t1 EXCEPT !.pc = "cleanupInstance", !.obj = h,
                               !.arg = S1.objs[h].instanceName]]
        ELSE [S |-> S1, t |-> [disconnect(t1) EXCEPT !.pc = "done"]]

\* The cleanup's catch and the final disconnect.
cleanupFailed(S, t, call, cleanupError) ==
    [S |-> emitError(S, t.id, cleanupError),
     t |-> [disconnect(t) EXCEPT !.pc = "done", !.failed = @ \cup {call}]]

\* createVm's .catch handler, for a throw before the try block.
CreateVmCatch(i) ==
    /\ i \in DOMAIN tasks
    /\ tasks[i].kind = "deploy" /\ tasks[i].pc = "rejected"
    /\ Step(i, [S |-> emitError(Store, tasks[i].id, tasks[i].errorMessage),
                t |-> [tasks[i] EXCEPT !.pc = "done"]], instances, dnsRecords)

CreateInstanceReturns(i, ok) ==
    /\ i \in DOMAIN tasks /\ MicrotasksDrained
    /\ tasks[i].kind = "deploy" /\ tasks[i].pc = "createInstance"
    /\ LET t == tasks[i] IN
       IF ok
       THEN /\ t.name \notin instances
            /\ LET S1 == updateSession(Store, t.id, [instanceName |-> t.name])
                   S2 == emitProgress(S1, t.id, "Waiting for instance to be ready...")
               IN  Step(i, [S |-> S2, t |-> [t EXCEPT !.pc = "poll"]],
                        instances \cup {t.name}, dnsRecords)
       ELSE Step(i, deployCatch(Store, [t EXCEPT !.failed = @ \cup {"createInstance"}],
                                "Failed to create Lightsail instance"),
                 instances, dnsRecords)

\* waitForInstanceRunning returns or throws.  Its loop reads and writes
\* nothing but its own counter, so its polls are taken as one segment.
WaitForInstanceReturns(i, polls) ==
    /\ i \in DOMAIN tasks /\ MicrotasksDrained
    /\ tasks[i].kind = "deploy" /\ tasks[i].pc = "poll"
    /\ polls \in PollRuns
    /\ LET t == tasks[i]
           w == waitForInstanceRunning(polls, DefaultMaxAttempts) IN
       IF w.res = "ip"
       THEN LET publicIp == w.res
                S1 == updateSession(Store, t.id, [publicIp |-> publicIp])
                S2 == emitProgress(S1, t.id, "Instance ready at IP")
                S3 == emitProgress(S2, t.id, "Opening firewall ports...")
            IN  Step(i, [S |-> S3, t |-> [t EXCEPT !.pc = "openPorts", !.ip = publicIp]],
                     instances, dnsRecords)
       ELSE Step(i, deployCatch(Store, [t EXCEPT !.failed = @ \cup {"waitForInstanceRunning"}],
                                w.res),
                 instances, dnsRecords)

OpenAllPortsReturns(i, ok) ==
    /\ i \in DOMAIN tasks /\ MicrotasksDrained
    /\ tasks[i].kind = "deploy" /\ tasks[i].pc = "openPorts"
    /\ LET t == tasks[i] IN
       IF ok
       THEN Step(i, [S |-> emitProgress(Store, t.id, "Waiting for instance initialization..."),
                     t |-> [t EXCEPT !.pc = "settle"]],
                 instances, dnsRecords)
       ELSE Step(i, deployCatch(Store, [t EXCEPT !.failed = @ \cup {"openAllPorts"}],
                                "Failed to open ports"), instances, dnsRecords)

\* The 15 s settle delay is over: connect via SSH.
SettleDelayOver(i) ==
    /\ i \in DOMAIN tasks /\ MicrotasksDrained
    /\ tasks[i].kind = "deploy" /\ tasks[i].pc = "settle"
    /\ Step(i, [S |-> emitProgress(Store, tasks[i].id, "Connecting via SSH..."),
                t |-> [tasks[i] EXCEPT !.pc = "connect"]],
            instances, dnsRecords)

DeployConnectReturns(i, ok) ==
    /\ i \in DOMAIN tasks /\ MicrotasksDrained
    /\ tasks[i].kind = "deploy" /\ tasks[i].pc = "connect"
    /\ LET t == tasks[i] IN
       IF ok
       THEN Step(i, [S |-> emitProgress(Store, t.id,
                              "Setting up environment and deploying application..."),
                     t |-> [t EXCEPT !.pc = "setup", !.ssh = "connected"]],
                 instances, dnsRecords)
       ELSE Step(i, deployCatch(Store, [t EXCEPT !.failed = @ \cup {"sshConnect"}],
                                "SSH connection failed"), instances, dnsRecords)

\* executeSetupCommands returns its logs: emit each, disconnect, create the DNS record.
SetupReturns(i, oc) ==
    /\ i \in DOMAIN tasks /\ MicrotasksDrained
    /\ tasks[i].kind = "deploy" /\ tasks[i].pc = "setup"
    /\ oc \in SetupOutcomes
    /\ LET t == tasks[i]
           S1 == EmitLogs(Store, t.id, executeSetupCommands(1, oc))
           S2 == emitProgress(S1, t.id, "Creating DNS record...")
       IN  Step(i, [S |-> S2, t |-> [disconnect(t) EXCEPT !.pc = "dns"]],
                instances, dnsRecords)

CreateDnsRecordReturns(i, ok) ==
    /\ i \in DOMAIN tasks /\ MicrotasksDrained
    /\ tasks[i].kind = "deploy" /\ tasks[i].pc = "dns"
    /\ LET t == tasks[i] IN
       IF ok
       THEN LET dnsName == t.name
                S1 == updateSession(Store, t.id, [dnsName |-> dnsName])
                S2 == emitComplete(S1, t.id, "deployed")
                S3 == emitProgress(S2, t.id, "Deployment complete!")
            IN  Step(i, [S |-> S3, t |-> [t EXCEPT !.pc = "done"]],
                     instances, dnsRecords \cup {t.name})
       ELSE Step(i, deployCatch(Store, [t EXCEPT !.failed = @ \cup {"createDnsRecord"}],
                                "Failed to create DNS record"),
                 instances, dnsRecords)

\* Compensation: deleteInstance returned.
CleanupInstanceReturns(i, ok) ==
    /\ i \in DOMAIN tasks /\ MicrotasksDrained
    /\ tasks[i].kind = "deploy" /\ tasks[i].pc = "cleanupInstance"
    /\ LET t == tasks[i]
           session == objs[t.obj] IN
       IF ok
       THEN IF Truthy(session.dnsName)
            THEN Step(i, [S |-> Store,
                          t |-> [t EXCEPT !.pc = "cleanupDns",
                                          !.arg = session.instanceName]],
                      instances \ {t.arg}, dnsRecords)
            ELSE Step(i, [S |-> Store, t |-> [disconnect(t) EXCEPT !.pc = "done"]],
                      instances \ {t.arg}, dnsRecords)
       ELSE Step(i, cleanupFailed(Store, t, "deleteInstance",
                                  "Cleanup failed: Failed to delete instance"),
                 instances, dnsRecords)

CleanupDnsReturns(i, ok) ==
    /\ i \in DOMAIN tasks /\ MicrotasksDrained
    /\ tasks[i].kind = "deploy" /\ tasks[i].pc = "cleanupDns"
    /\ LET t == tasks[i] IN
       IF ok
       THEN Step(i, [S |-> Store, t |-> [disconnect(t) EXCEPT !.pc = "done"]],
                 instances, dnsRecords \ {t.arg})
       ELSE Step(i, cleanupFailed(Store, t, "deleteDnsRecord",
                                  "Cleanup failed: Failed to delete DNS record"),
                 instances, dnsRecords)

\* ------------------------------------------------------------- createVm
\* createVm: createSession, then deployVmAsync runs up to its first await
\* and createVm returns the id.
createVm(id, cfg) ==
    LET S1 == createSession(Store, id, cfg) IN
    Launch(deployVmAsyncStart(S1, [NewTask("deploy", id) EXCEPT !.obj = S1.sessions[id]]),
           instances, dnsRecords)

\* createVm of create-vm.ts: the id is a fresh uuid.
CreateVm(id, cfg) ==
    /\ MicrotasksDrained /\ CanLaunch /\ Len(objs) < MaxObjs
    /\ \A h \in DOMAIN objs : objs[h].id # id
    /\ createVm(id, cfg)

\* createVm keyed by the caller's config.deploymentId, here an id used before.
CreateVmWithId(id, cfg) ==
    /\ MicrotasksDrained /\ CanLaunch /\ Len(objs) < MaxObjs
    /\ \E h \in DOMAIN objs : objs[h].id = id
    /\ createVm(id, cfg)

\* ------------------------------------------------------ redeployProject
\* What redeployProject(id) answers: "ok" when it launches the workflow,
\* else the message of the error it throws.
\* Variant of redeployProject's checks that asks only for the instance name.
redeployProjectResultNameOnly(S, id) ==
    LET h == getSession(S, id) IN
    IF h = 0 THEN "Session not found"
    ELSE IF ~Truthy(S.objs[h].instanceName)
    THEN "Deployment information not found in session"
    ELSE "ok"

redeployProjectResult(S, id) ==
    LET h == getSession(S, id) IN
    IF h = 0 THEN "Session not found"
    ELSE IF ~Truthy(S.objs[h].instanceName) \/ ~Truthy(S.objs[h].publicIp)
    THEN "Deployment information not found in session"
    ELSE "ok"

redeployAsyncStart(S, t) ==
    LET S1 == emitProgress(S, t.id, "Starting redeployment...")
        S2 == emitProgress(S1, t.id, "Connecting to server...")
    IN  [S |-> S2, t |-> [t EXCEPT !.pc = "connect", !.ssh = "new"]]

RedeployProject(id) ==
    /\ MicrotasksDrained
    /\ IF redeployProjectResult(Store, id) # "ok"
       THEN UNCHANGED vars
       ELSE /\ CanLaunch
            /\ LET S1 == updateSession(Store, id, [status |-> "redeploying",
                                                    lastDeployedAt |-> newDate(Store, id)])
               IN  Launch(redeployAsyncStart(S1, [NewTask("redeploy", id) EXCEPT
                                                    !.obj = getSession(Store, id)]),
                          instances, dnsRecords)

RedeployConnectReturns(i, ok) ==
    /\ i \in DOMAIN tasks /\ MicrotasksDrained
    /\ tasks[i].kind = "redeploy" /\ tasks[i].pc = "connect"
    /\ LET t == tasks[i] IN
       IF ok
       THEN Step(i, [S |-> emitProgress(Store, t.id,
                              "Pulling latest code and restarting services..."),
                     t |-> [t EXCEPT !.pc = "exec", !.ssh = "connected"]],
                 instances, dnsRecords)
       ELSE Step(i, [S |-> emitError(Store, t.id, "SSH connection failed"),
                     t |-> [disconnect(t) EXCEPT !.pc = "done",
                                !.errorMessage = "SSH connection failed",
                                !.failed = @ \cup {"sshConnect"}]],
                 instances, dnsRecords)

\* Variant of the end of redeployAsync that leaves lastDeployedAt as it is.
redeployAsyncEndKeepsDate(S, t, redeployLogs) ==
    LET S1 == EmitLogs(S, t.id, redeployLogs)
        S2 == updateSession(S1, t.id, [status |-> "success"])
        S3 == emitComplete(S2, t.id, "redeployed")
        S4 == emitProgress(S3, t.id, "Redeployment complete!")
    IN  [S |-> S4, t |-> [disconnect(t) EXCEPT !.pc = "done"]]

\* redeployAsync from the return of executeRedeployCommands to its end.
redeployAsyncEnd(S, t, redeployLogs) ==
    LET S1 == EmitLogs(S, t.id, redeployLogs)
        S2 == updateSession(S1, t.id, [status |-> "success",
                                       lastDeployedAt |-> newDate(S1, t.id)])
        S3 == emitComplete(S2, t.id, "redeployed")
        S4 == emitProgress(S3, t.id, "Redeployment complete!")
    IN  [S |-> S4, t |-> [disconnect(t) EXCEPT !.pc = "done"]]

RedeployCommandsReturn(i, o) ==
    /\ i \in DOMAIN tasks /\ MicrotasksDrained
    /\ tasks[i].kind = "redeploy" /\ tasks[i].pc = "exec"
    /\ o \in CommandOutcomes
    /\ Step(i, redeployAsyncEnd(Store, tasks[i], executeRedeployCommands(o)),
            instances, dnsRecords)

\* ------------------------------------------------------------- deleteVm
\* Variant of deleteVm's checks that reports an absent session as one
\* without an instance.
deleteVmResultNoSessionCheck(S, id) ==
    LET h == getSession(S, id) IN
    IF h # 0 /\ Truthy(S.objs[h].instanceName) THEN "ok"
    ELSE "No instance found to delete"

deleteVmResult(S, id) ==
    LET h == getSession(S, id) IN
    IF h = 0 THEN "Session not found"
    ELSE IF ~Truthy(S.objs[h].instanceName) THEN "No instance found to delete"
    ELSE "ok"

deleteInstanceCall(S, t) ==
    [S |-> emitProgress(S, t.id, "Deleting Lightsail instance..."),
     t |-> [t EXCEPT !.pc = "delInstance", !.arg = S.objs[t.obj].instanceName]]

\* Variant of the start of deleteVmAsync that deletes the DNS record whether
\* or not the session has a dnsName.
deleteVmAsyncStartAlwaysDns(S, t) ==
    LET S1 == emitProgress(S, t.id, "Starting VM deletion...") IN
    [S |-> emitProgress(S1, t.id, "Deleting DNS record..."),
     t |-> [t EXCEPT !.pc = "delDns", !.arg = S.objs[t.obj].instanceName]]

deleteVmAsyncStart(S, t) ==
    LET S1 == emitProgress(S, t.id, "Starting VM deletion...") IN
    IF Truthy(S.objs[t.obj].dnsName)
    THEN [S |-> emitProgress(S1, t.id, "Deleting DNS record..."),
          t |-> [t EXCEPT !.pc = "delDns", !.arg = S.objs[t.obj].instanceName]]
    ELSE deleteInstanceCall(S1, t)

DeleteVm(id) ==
    /\ MicrotasksDrained
    /\ IF deleteVmResult(Store, id) # "ok"
       THEN UNCHANGED vars
       ELSE /\ CanLaunch
            /\ Launch(deleteVmAsyncStart(Store, [NewTask("delete", id) EXCEPT
                                                   !.obj = getSession(Store, id)]),
                      instances, dnsRecords)

\* deleteDnsRecord returned or threw; the throw becomes a warning.
DeleteDnsReturns(i, ok) ==
    /\ i \in DOMAIN tasks /\ MicrotasksDrained
    /\ tasks[i].kind = "delete" /\ tasks[i].pc = "delDns"
    /\ LET t == tasks[i]
           S1 == IF ok
                 THEN emitProgress(Store, t.id, "DNS record deleted successfully")
                 ELSE emitProgress(Store, t.id, "Warning: Failed to delete DNS record")
           t1 == IF ok THEN t ELSE [t EXCEPT !.failed = @ \cup {"deleteDnsRecord"}]
       IN  Step(i, deleteInstanceCall(S1, t1), instances,
                IF ok THEN dnsRecords \ {t.arg} ELSE dnsRecords)

DeleteInstanceReturns(i, ok) ==
    /\ i \in DOMAIN tasks /\ MicrotasksDrained
    /\ tasks[i].kind = "delete" /\ tasks[i].pc = "delInstance"
    /\ LET t == tasks[i] IN
       IF ok
       THEN LET S1 == emitProgress(Store, t.id, "Lightsail instance deleted successfully")
                S2 == emitComplete(S1, t.id, "deleted")
                S3 == emitProgress(S2, t.id, "VM deletion complete!")
                \* setTimeout(() => deleteSession(id), 5000); obj is the
                \* session the workflow was started on
                S4 == [S3 EXCEPT !.pending = Append(@,
                          [kind |-> "grace", id |-> t.id, obj |-> t.obj,
                           left |-> GRACE_DELAY])]
            IN  Step(i, [S |-> S4, t |-> [t EXCEPT !.pc = "done"]],
                     instances \ {t.arg}, dnsRecords)
       ELSE Step(i, [S |-> emitError(Store, t.id, "Failed to delete instance"),
                     t |-> [t EXCEPT !.pc = "done",
                                     !.errorMessage = "Failed to delete instance",
                                     !.failed = @ \cup {"deleteInstance"}]],
                 instances, dnsRecords)

\* -------------------------------------------------------- forceDeleteVm
forceDeleteVmResult(S, id) ==
    IF getSession(S, id) = 0 THEN "Session not found" ELSE "ok"

\* forceDeleteVm up to its first await, or to its return when the session
\* has no instance name.
ForceDeleteVm(id) ==
    /\ MicrotasksDrained
    /\ IF forceDeleteVmResult(Store, id) # "ok"
       THEN UNCHANGED vars
       ELSE /\ CanCall
            /\ LET h == getSession(Store, id)
                   t == [NewTask("force", id) EXCEPT !.obj = h]
               IN  IF Truthy(objs[h].instanceName)
                   THEN Launch([S |-> Store,
                                t |-> [t EXCEPT !.pc = "forceInstance",
                                                !.arg = objs[h].instanceName]],
                               instances, dnsRecords)
                   ELSE Launch([S |-> deleteSession(Store, id), t |-> t],
                               instances, dnsRecords)

\* deleteInstance returned or threw: the throw is only logged to the console.
ForceInstanceReturns(i, ok) ==
    /\ i \in DOMAIN tasks /\ MicrotasksDrained
    /\ tasks[i].kind = "force" /\ tasks[i].pc = "forceInstance"
    /\ LET t == tasks[i] IN
       Step(i, [S |-> Store,
                t |-> [t EXCEPT !.pc = "forceDns",
                                !.failed = IF ok THEN @ ELSE @ \cup {"deleteInstance"}]],
            IF ok THEN instances \ {t.arg} ELSE instances, dnsRecords)

\* deleteDnsRecord returned or threw: the session is removed and the call returns.
ForceDnsReturns(i, ok) ==
    /\ i \in DOMAIN tasks /\ MicrotasksDrained
    /\ tasks[i].kind = "force" /\ tasks[i].pc = "forceDns"
    /\ LET t == tasks[i] IN
       Step(i, [S |-> deleteSession(Store, t.id),
                t |-> [t EXCEPT !.pc = "done",
                                !.failed = IF ok THEN @ ELSE @ \cup {"deleteDnsRecord"}]],
            instances, IF ok THEN dnsRecords \ {t.arg} ELSE dnsRecords)

\* ---------------------------------------------------------- getVmStatus
\* What getVmStatus(id) answers: the error it throws for an unknown id, an
\* error text when getInstanceInfo throws, else the session's status.
getVmStatusResult(S, id, infoOk) ==
    LET h == getSession(S, id) IN
    IF h = 0 THEN "Deployment not found"
    ELSE IF Truthy(S.objs[h].instanceName) /\ ~infoOk THEN "Error getting status"
    ELSE S.objs[h].status

\* getVmStatus calls Lightsail only for a session that has an instance name.
getVmStatusCalls(S, id) ==
    LET h == getSession(S, id) IN
    IF h # 0 /\ Truthy(S.objs[h].instanceName) THEN {"getInstance"} ELSE {}

\* getVmStatus changes nothing.
GetVmStatus(id, infoOk) ==
    /\ MicrotasksDrained
    /\ getVmStatusResult(Store, id, infoOk) \in
          Statuses \cup {"Deployment not found", "Error getting status"}
    /\ UNCHANGED vars

\* --------------------------------------------------------------- timers
RECURSIVE RemoveAt(_, _)
RemoveAt(s, k) ==
    IF k = 1 THEN Tail(s) ELSE <<Head(s)>> \o RemoveAt(Tail(s), k - 1)

\* The callback of id's mapped idle timer: deleteSession(id).
idleTimeout(S, id) == deleteSession(S, id)

\* The callback of a timer that is in no map (a leaked idle timer, or
\* deleteVmAsync's grace timer): deleteSession(id) too.
pendingTimeout(S, k) ==
    deleteSession([S EXCEPT !.pending = RemoveAt(@, k)], S.pending[k].id)

\* In the workflow specification the clock is not tracked: an external call
\* may take any time, so an armed timer may fire between any two segments.
IdleExpiry(id) ==
    /\ MicrotasksDrained
    /\ sessionTimeouts[id] # <<>>
    /\ Commit(idleTimeout(Store, id), tasks, instances, dnsRecords)

PendingExpiry(k) ==
    /\ MicrotasksDrained
    /\ k \in DOMAIN pending
    /\ Commit(pendingTimeout(Store, k), tasks, instances, dnsRecords)

\* -------------------------------------------------- the MCP endpoint
\* transports is a plain object keyed by session id.  Reading a key that
\* the object does not hold itself gives what Object.prototype holds under
\* it: a value that is truthy and is no transport.
MaxTransports == 2
Uuids == {"u1", "u2"}
ObjectPrototypeKeys == {"constructor"}
NoHeader == "(no header)"
SessionIdHeaders == Uuids \cup ObjectPrototypeKeys \cup {NoHeader, "", "unknown"}

\* sessionId is neither undefined nor the empty string.
Given(sessionId) == sessionId \notin {NoHeader, ""}

Registered(T, sessionId) == sessionId \in Uuids /\ T[sessionId] # 0

\* Variant of the lookup for a map without inherited keys.
lookupOwn(T, sessionId) ==
    IF Registered(T, sessionId) THEN [kind |-> "transport", h |-> T[sessionId]]
    ELSE [kind |-> "undefined", h |-> 0]

\* transports[sessionId]
lookup(T, sessionId) ==
    IF Registered(T, sessionId) THEN [kind |-> "transport", h |-> T[sessionId]]
    ELSE IF sessionId \in ObjectPrototypeKeys THEN [kind |-> "inherited", h |-> 0]
    ELSE [kind |-> "undefined", h |-> 0]

Answer(req, status, h) == [req |-> req, status |-> status, by |-> h]
Request(method, sessionId, isInit) ==
    [method |-> method, sessionId |-> sessionId, isInit |-> isInit]

NoTransports ==
    [transports |-> [u \in Uuids |-> 0], objs |-> <<>>,
     res |-> Answer(Request("none", NoHeader, FALSE), 0, 0)]

\* transport.onclose: delete transports[transport.sessionId].
onclose(M, h) ==
    LET sessionId == M.objs[h].sessionId IN
    [M EXCEPT !.objs[h].closed = TRUE,
              !.transports = IF sessionId \in Uuids
                             THEN [@ EXCEPT ![sessionId] = 0] ELSE @]

\* ------------------------------------------------------- specification
Configs == [name : Names]

Init ==
    /\ sessions = [id \in Ids |-> 0]
    /\ objs = <<>>
    /\ sessionTimeouts = [id \in Ids |-> <<>>]
    /\ pending = <<>>
    /\ listeners = [c \in Channels |-> <<>>]
    /\ conns = <<>>
    /\ seqno = [id \in Ids |-> 0]
    /\ tasks = <<>>
    /\ instances = {}
    /\ dnsRecords = {}
    /\ envKeyLen \in {0, RequiredKeyLen}
    /\ idle = <<>>
    /\ svc = NoCall
    /\ mcp = NoTransports

Next ==
    \/ \E id \in CallIds, cfg \in Configs : CreateVm(id, cfg)
    \/ \E id \in CallIds, cfg \in Configs : CreateVmWithId(id, cfg)
    \/ \E id \in CallIds : RedeployProject(id)
    \/ \E id \in CallIds : DeleteVm(id)
    \/ \E id \in CallIds : ForceDeleteVm(id)
    \/ \E id \in CallIds, ok \in BOOLEAN : GetVmStatus(id, ok)
    \/ \E i \in TaskSlots : CreateVmCatch(i)
    \/ \E i \in TaskSlots : PromiseSettles(i)
    \/ \E i \in TaskSlots, ok \in BOOLEAN : CreateInstanceReturns(i, ok)
    \/ \E i \in TaskSlots, polls \in PollRuns : WaitForInstanceReturns(i, polls)
    \/ \E i \in TaskSlots, ok \in BOOLEAN : OpenAllPortsReturns(i, ok)
    \/ \E i \in TaskSlots : SettleDelayOver(i)
    \/ \E i \in TaskSlots, ok \in BOOLEAN : DeployConnectReturns(i, ok)
    \/ \E i \in TaskSlots, oc \in SetupOutcomes : SetupReturns(i, oc)
    \/ \E i \in TaskSlots, ok \in BOOLEAN : CreateDnsRecordReturns(i, ok)
    \/ \E i \in TaskSlots, ok \in BOOLEAN : CleanupInstanceReturns(i, ok)
    \/ \E i \in TaskSlots, ok \in BOOLEAN : CleanupDnsReturns(i, ok)
    \/ \E i \in TaskSlots, ok \in BOOLEAN : RedeployConnectReturns(i, ok)
    \/ \E i \in TaskSlots, o \in CommandOutcomes : RedeployCommandsReturn(i, o)
    \/ \E i \in TaskSlots, ok \in BOOLEAN : DeleteDnsReturns(i, ok)
    \/ \E i \in TaskSlots, ok \in BOOLEAN : DeleteInstanceReturns(i, ok)
    \/ \E i \in TaskSlots, ok \in BOOLEAN : ForceInstanceReturns(i, ok)
    \/ \E i \in TaskSlots, ok \in BOOLEAN : ForceDnsReturns(i, ok)
    \/ \E id \in CallIds : IdleExpiry(id)
    \/ \E k \in TimerSlots : PendingExpiry(k)

Spec == Init /\ [][Next]_vars

\* The steps that do not wait for a caller: an external call of a workflow
\* returns or throws, a settled promise runs its handler.
Returns ==
    \/ \E i \in TaskSlots : CreateVmCatch(i)
    \/ \E i \in TaskSlots : PromiseSettles(i)
    \/ \E i \in TaskSlots, ok \in BOOLEAN : CreateInstanceReturns(i, ok)
    \/ \E i \in TaskSlots, polls \in PollRuns : WaitForInstanceReturns(i, polls)
    \/ \E i \in TaskSlots, ok \in BOOLEAN : OpenAllPortsReturns(i, ok)
    \/ \E i \in TaskSlots : SettleDelayOver(i)
    \/ \E i \in TaskSlots, ok \in BOOLEAN : DeployConnectReturns(i, ok)
    \/ \E i \in TaskSlots, oc \in SetupOutcomes : SetupReturns(i, oc)
    \/ \E i \in TaskSlots, ok \in BOOLEAN : CreateDnsRecordReturns(i, ok)
    \/ \E i \in TaskSlots, ok \in BOOLEAN : CleanupInstanceReturns(i, ok)
    \/ \E i \in TaskSlots, ok \in BOOLEAN : CleanupDnsReturns(i, ok)
    \/ \E i \in TaskSlots, ok \in BOOLEAN : RedeployConnectReturns(i, ok)
    \/ \E i \in TaskSlots, o \in CommandOutcomes : RedeployCommandsReturn(i, o)
    \/ \E i \in TaskSlots, ok \in BOOLEAN : DeleteDnsReturns(i, ok)
    \/ \E i \in TaskSlots, ok \in BOOLEAN : DeleteInstanceReturns(i, ok)
    \/ \E i \in TaskSlots, ok \in BOOLEAN : ForceInstanceReturns(i, ok)
    \/ \E i \in TaskSlots, ok \in BOOLEAN : ForceDnsReturns(i, ok)

\* The tools and workflows under the assumption that every external call
\* eventually returns or throws and that the event loop runs the callbacks
\* that are due: a return that can happen does happen.
SpecLive == Spec /\ WF_vars(Returns)

\* ------------------------------------------- the store and its clock
\* The SessionManager alone, driven by direct calls, with a clock: one tick
\* is half the idle window, and a timer fires when its time is up.
Updates == {[status |-> "success"], [instanceName |-> "app"]}

CommitStore(S, newIdle) ==
    /\ sessions' = S.sessions
    /\ objs' = S.objs
    /\ sessionTimeouts' = S.sessionTimeouts
    /\ pending' = S.pending
    /\ idle' = newIdle
    /\ UNCHANGED <<listeners, conns, seqno, tasks, instances, dnsRecords, envKeyLen, svc, mcp>>

StoreCreate(id, cfg) ==
    /\ Len(objs) < MaxObjs
    /\ CommitStore(createSession(Store, id, cfg), Append(idle, 0))

StoreUpdate(id, upd) ==
    CommitStore(updateSession(Store, id, upd),
                IF sessions[id] # 0 THEN [idle EXCEPT ![sessions[id]] = 0] ELSE idle)

StoreGet(id) ==
    /\ getSession(Store, id) \in 0..Len(objs)
    /\ UNCHANGED vars

StoreDelete(id) == CommitStore(deleteSession(Store, id), idle)

TimerDue ==
    \/ \E id \in Ids : sessionTimeouts[id] = <<0>>
    \/ \E k \in DOMAIN pending : pending[k].left = 0

\* A tick passes: no timer is due, every armed timer has one tick less to
\* run and every stored session has been idle one tick longer.
Tick ==
    /\ ~TimerDue
    /\ \E id \in Ids : sessionTimeouts[id] # <<>>
    /\ sessionTimeouts' =
          [id \in Ids |-> IF sessionTimeouts[id] = <<>> THEN <<>>
                          ELSE <<sessionTimeouts[id][1] - 1>>]
    /\ pending' = [k \in DOMAIN pending |-> [pending[k] EXCEPT !.left = @ - 1]]
    /\ idle' = [h \in DOMAIN idle |->
                   IF \E id \in Ids : sessions[id] = h THEN idle[h] + 1 ELSE idle[h]]
    /\ UNCHANGED <<sessions, objs, listeners, conns, seqno, tasks, instances,
                   dnsRecords, envKeyLen, svc, mcp>>

IdleTimerFires(id) ==
    /\ sessionTimeouts[id] = <<0>>
    /\ CommitStore(idleTimeout(Store, id), idle)

LeakedTimerFires(k) ==
    /\ k \in DOMAIN pending
    /\ pending[k].left = 0
    /\ CommitStore(pendingTimeout(Store, k), idle)

NextStore ==
    \/ \E id \in Ids, cfg \in Configs : StoreCreate(id, cfg)
    \/ \E id \in Ids, upd \in Updates : StoreUpdate(id, upd)
    \/ \E id \in Ids : StoreGet(id)
    \/ \E id \in Ids : StoreDelete(id)
    \/ Tick
    \/ \E id \in Ids : IdleTimerFires(id)
    \/ \E k \in TimerSlots : LeakedTimerFires(k)

SpecStore == Init /\ [][NextStore]_vars

\* ------------------------------------- the deletion workflow and the clock
\* deleteVm and deleteVmAsync on sessions that direct store calls have given
\* an instance (and a DNS name), with the clock: the grace timer of a
\* finished deletion is due before the next tick, an idle timer after
\* SESSION_TIMEOUT ticks.  The ghost idle follows the direct store calls only.
DeployedFields ==
    {[instanceName |-> "app"], [instanceName |-> "app", dnsName |-> "app"]}

NextDelete ==
    \/ \E id \in CallIds, cfg \in Configs : StoreCreate(id, cfg)
    \/ \E id \in CallIds, upd \in DeployedFields : StoreUpdate(id, upd)
    \/ \E id \in CallIds : DeleteVm(id)
    \/ \E i \in TaskSlots : PromiseSettles(i)
    \/ \E i \in TaskSlots, ok \in BOOLEAN : DeleteDnsReturns(i, ok)
    \/ \E i \in TaskSlots, ok \in BOOLEAN : DeleteInstanceReturns(i, ok)
    \/ Tick
    \/ \E id \in CallIds : IdleTimerFires(id)
    \/ \E k \in TimerSlots : LeakedTimerFires(k)

SpecDelete == Init /\ [][NextDelete]_vars

\* -------------------------------------------------------- the event bus
\* The SSE endpoints and emitEvent alone: clients connect and disconnect,
\* and events are published for an id, numbered per id by seqno.
PublishTypes == {"progress"}

NewConn(channel, id, frames) ==
    [channel |-> channel, open |-> TRUE, rx |-> frames, since |-> seqno[id], until |-> 0]

CommitBus(cs, ls, sq) ==
    /\ conns' = cs
    /\ listeners' = ls
    /\ seqno' = sq
    /\ UNCHANGED <<sessions, objs, sessionTimeouts, pending, tasks, instances,
                   dnsRecords, envKeyLen, idle, svc, mcp>>

\* GET /sse/:deploymentId: a connected frame, then the handler is
\* registered on deployment:<id>.
SseConnect(id) ==
    /\ Len(conns) < MaxConns
    /\ LET ch == Channel("deployment", id)
           c == Len(conns) + 1
       IN  CommitBus(Append(conns, NewConn(ch, id, <<Event("connected", id)>>)),
                     [listeners EXCEPT ![ch] = Append(@, c)], seqno)

\* Variant of the status snapshot that is written whether or not the
\* session exists.
statusSnapshotAlways(S, id) ==
    LET h == getSession(S, id) IN
    <<Event("status", IF h # 0 THEN S.objs[h].status ELSE None)>>

\* The frames the transport.ts endpoint writes after registering its
\* handler: the current session status if the session exists.
statusSnapshot(S, id) ==
    LET h == getSession(S, id) IN
    IF h # 0 THEN <<Event("status", S.objs[h].status)>> ELSE <<>>

\* GET /sse/:sessionId of transport.ts: a connected frame, the handler is
\* registered on session:<id>, then a status frame if the session exists.
SseConnectTransport(id) ==
    /\ Len(conns) < MaxConns
    /\ LET ch == Channel("session", id)
           c == Len(conns) + 1
           frames == <<Event("connected", id)>> \o statusSnapshot(Store, id)
       IN  CommitBus(Append(conns, NewConn(ch, id, frames)),
                     [listeners EXCEPT ![ch] = Append(@, c)], seqno)

\* Variant of removeListener that takes every handler off the channel.
removeAllListeners(ls, ch, c) == [ls EXCEPT ![ch] = <<>>]

\* EventEmitter.removeListener(channel, handler): each connection has a
\* handler of its own, registered once.
removeListener(ls, ch, c) == [ls EXCEPT ![ch] = SelectSeq(@, LAMBDA x : x # c)]

\* The request's close event: removeListener takes the handler off its channel.
SseClose(c) ==
    /\ c \in DOMAIN conns
    /\ conns[c].open
    /\ LET ch == conns[c].channel IN
       CommitBus([conns EXCEPT ![c].open = FALSE, ![c].until = seqno[ch[2]]],
                 removeListener(listeners, ch, c), seqno)

\* emitEvent(id, e) with e the next event of id.
Publish(id, type) ==
    /\ seqno[id] < MaxEvents
    /\ CommitBus(emitEvent(Store, id, Event(type, seqno[id] + 1)).conns, listeners,
                 [seqno EXCEPT ![id] = @ + 1])

NextBus ==
    \/ \E id \in Ids : SseConnect(id)
    \/ \E id \in Ids : SseConnectTransport(id)
    \/ \E c \in 1..MaxConns : SseClose(c)
    \/ \E id \in Ids, type \in PublishTypes : Publish(id, type)
    \/ \E id \in CallIds, cfg \in Configs : StoreCreate(id, cfg)
    \/ \E id \in CallIds : StoreDelete(id)

SpecBus == Init /\ [][NextBus]_vars

\* ------------------------------------------- the services specification
\* The service functions applied to arguments drawn from bounded sets:
\* svc holds the arguments of the call and what it returned.  The functions
\* keep no state between calls, so a behaviour makes one call.
MaxPolls == 3

CommitSvc(call) ==
    /\ svc = NoCall
    /\ svc' = call
    /\ UNCHANGED <<sessions, objs, sessionTimeouts, pending, listeners, conns, seqno,
                   tasks, instances, dnsRecords, envKeyLen, idle, mcp>>

CallExtractProjectName(url) ==
    CommitSvc([op |-> "extractProjectName", url |-> url, out |-> extractProjectName(url)])

\* A create_vm call up to the instance name its workflow derives, in either
\* version of deployVmAsync.
CallCreateVm(args) ==
    LET r == createVmHandler(args) IN
    CommitSvc(IF r.rejected
              THEN [op |-> "createVm", call |-> args, rejected |-> TRUE]
              ELSE [op |-> "createVm", call |-> args, rejected |-> FALSE,
                    config |-> r.config,
                    out |-> instanceNameOf(r.config),
                    outRepo |-> instanceNameOfRepo(r.config)])

\* deployVmAsync passes the instance name it has derived to executeSetupCommands.
CallExecuteSetupCommands(args, oc) ==
    LET r == createVmHandler(args) IN
    /\ ~r.rejected
    /\ LET instanceName == instanceNameOf(r.config).value IN
       CommitSvc([op |-> "executeSetupCommands", call |-> args, config |-> r.config,
                  instanceName |-> instanceName, oc |-> oc,
                  out |-> setupLogs(r.config, instanceName, oc)])

CallWaitForInstanceRunning(polls, maxAttempts) ==
    CommitSvc([op |-> "waitForInstanceRunning", polls |-> polls, maxAttempts |-> maxAttempts,
               out |-> waitForInstanceRunning(polls, maxAttempts)])

\* connect on a new SSHService, followed by executeCommand.
CallSshConnect(sshKey, reachable) ==
    LET r == connect(sshKey, reachable) IN
    CommitSvc([op |-> "connect", sshKey |-> sshKey, reachable |-> reachable, out |-> r,
               then |-> executeCommandGuard(r.connected)])

NextServices ==
    \/ \E sshKey \in SshKeys, reachable \in BOOLEAN : CallSshConnect(sshKey, reachable)
    \/ \E url \in Urls \cup {Missing} : CallExtractProjectName(url)
    \/ \E args \in CreateVmArgs : CallCreateVm(args)
    \/ \E args \in CreateVmArgs, oc \in SetupOutcomes : CallExecuteSetupCommands(args, oc)
    \/ \E polls \in [1..MaxPolls -> PollOutcomes], maxAttempts \in 0..MaxPolls :
          CallWaitForInstanceRunning(polls, maxAttempts)

SpecServices == Init /\ [][NextServices]_vars

\* ----------------------------------- provisioning under two project names
\* createVm and the provisioning workflow alone, with configurations that
\* name two different projects: a caller may use one deploymentId with
\* either of them.
NamedConfigs == [name : {"app", "api"}]

NextNames ==
    \/ \E id \in CallIds, cfg \in NamedConfigs : CreateVm(id, cfg)
    \/ \E id \in CallIds, cfg \in NamedConfigs : CreateVmWithId(id, cfg)
    \/ \E i \in TaskSlots : CreateVmCatch(i)
    \/ \E i \in TaskSlots : PromiseSettles(i)
    \/ \E i \in TaskSlots, ok \in BOOLEAN : CreateInstanceReturns(i, ok)
    \/ \E i \in TaskSlots, polls \in PollRuns : WaitForInstanceReturns(i, polls)
    \/ \E i \in TaskSlots, ok \in BOOLEAN : OpenAllPortsReturns(i, ok)
    \/ \E i \in TaskSlots : SettleDelayOver(i)
    \/ \E i \in TaskSlots, ok \in BOOLEAN : DeployConnectReturns(i, ok)
    \/ \E i \in TaskSlots, oc \in SetupOutcomes : SetupReturns(i, oc)
    \/ \E i \in TaskSlots, ok \in BOOLEAN : CreateDnsRecordReturns(i, ok)
    \/ \E i \in TaskSlots, ok \in BOOLEAN : CleanupInstanceReturns(i, ok)
    \/ \E i \in TaskSlots, ok \in BOOLEAN : CleanupDnsReturns(i, ok)

SpecNames == Init /\ [][NextNames]_vars

\* ------------------------------------------- the sessions of several ids
\* The SessionManager's methods called directly for either id, with SSE
\* clients on the deployment channels; no clock: an armed timer may fire at
\* any time.  seqno counts the emit calls made for an id; MaxEvents bounds
\* the emit calls of a behaviour.
EmitCalls == seqno["d1"] + seqno["d2"]

CommitEmit(S, id) ==
    /\ EmitCalls < MaxEvents
    /\ sessions' = S.sessions
    /\ objs' = S.objs
    /\ sessionTimeouts' = S.sessionTimeouts
    /\ pending' = S.pending
    /\ conns' = S.conns
    /\ seqno' = [seqno EXCEPT ![id] = @ + 1]
    /\ UNCHANGED <<listeners, tasks, instances, dnsRecords, envKeyLen, idle, svc, mcp>>

StoreEmitLog(id) == CommitEmit(emitLog(Store, id, CommandLog(1, "ok")), id)

StoreEmitError(id) == CommitEmit(emitError(Store, id, "Failed to create Lightsail instance"), id)

StoreEmitComplete(id) == CommitEmit(emitComplete(Store, id, "deployed"), id)

NextSessions ==
    \/ \E id \in Ids, cfg \in Configs : StoreCreate(id, cfg)
    \/ \E id \in Ids : StoreUpdate(id, [instanceName |-> "app"])
    \/ \E id \in Ids : StoreDelete(id)
    \/ \E id \in Ids : StoreEmitLog(id)
    \/ \E id \in Ids : StoreEmitError(id)
    \/ \E id \in Ids : StoreEmitComplete(id)
    \/ \E id \in Ids : IdleExpiry(id)
    \/ \E k \in TimerSlots : PendingExpiry(k)
    \/ \E id \in Ids : SseConnect(id)

SpecSessions == Init /\ [][NextSessions]_vars

\* ------------------------------------------- the MCP endpoint's requests
\* The /mcp routes.  The transport is the SDK's: handleRequest answers the
\* request (status 200 stands for whatever it answers), an initialize
\* request that it accepts makes it generate its session id and call
\* onsessioninitialized, a DELETE that it accepts makes it close.  Calling
\* handleRequest on a value that is no transport throws a TypeError.
CommitMcp(M) ==
    /\ mcp' = M
    /\ UNCHANGED <<sessions, objs, sessionTimeouts, pending, listeners, conns, seqno,
                   tasks, instances, dnsRecords, envKeyLen, idle, svc>>

UsedUuids == {mcp.objs[h].sessionId : h \in DOMAIN mcp.objs}

\* What becomes of a TypeError thrown in an async route handler: no answer
\* at all (status 0) or the framework's 500.
UncaughtStatuses == {0, 500}

PostMcp(sessionId, isInit, accepted) ==
    LET req == Request("POST", sessionId, isInit)
        found == lookup(mcp.transports, sessionId)
    IN  IF Given(sessionId) /\ found.kind # "undefined"
        THEN \* reuse the existing transport
             IF found.kind = "transport"
             THEN CommitMcp([mcp EXCEPT !.res = Answer(req, 200, found.h)])
             ELSE \E status \in UncaughtStatuses :
                     CommitMcp([mcp EXCEPT !.res = Answer(req, status, 0)])
        ELSE IF ~Given(sessionId) /\ isInit
        THEN /\ Len(mcp.objs) < MaxTransports
             /\ LET h == Len(mcp.objs) + 1 IN
                IF accepted
                THEN \E u \in Uuids \ UsedUuids :
                        CommitMcp([transports |-> [mcp.transports EXCEPT ![u] = h],
                                   objs |-> Append(mcp.objs, [sessionId |-> u, closed |-> FALSE]),
                                   res |-> Answer(req, 200, h)])
                ELSE CommitMcp([mcp EXCEPT
                                   !.objs = Append(@, [sessionId |-> NoHeader, closed |-> FALSE]),
                                   !.res = Answer(req, 200, h)])
        ELSE CommitMcp([mcp EXCEPT !.res = Answer(req, 400, 0)])

\* GET and DELETE /mcp.
handleSessionRequest(method, sessionId, accepted) ==
    LET req == Request(method, sessionId, FALSE)
        found == lookup(mcp.transports, sessionId)
    IN  IF ~Given(sessionId) \/ found.kind = "undefined"
        THEN CommitMcp([mcp EXCEPT !.res = Answer(req, 400, 0)])
        ELSE IF found.kind = "transport"
        THEN LET M == [mcp EXCEPT !.res = Answer(req, 200, found.h)] IN
             CommitMcp(IF method = "DELETE" /\ accepted THEN onclose(M, found.h) ELSE M)
        ELSE \E status \in UncaughtStatuses :
                CommitMcp([mcp EXCEPT !.res = Answer(req, status, 0)])

GetMcp(sessionId) == handleSessionRequest("GET", sessionId, FALSE)

DeleteMcp(sessionId, accepted) == handleSessionRequest("DELETE", sessionId, accepted)

\* A transport is closed from the server's side.
TransportCloses(h) ==
    /\ h \in DOMAIN mcp.objs
    /\ ~mcp.objs[h].closed
    /\ CommitMcp(onclose(mcp, h))

NextMcp ==
    \/ \E sessionId \in SessionIdHeaders, isInit, accepted \in BOOLEAN :
          PostMcp(sessionId, isInit, accepted)
    \/ \E sessionId \in SessionIdHeaders : GetMcp(sessionId)
    \/ \E sessionId \in SessionIdHeaders, accepted \in BOOLEAN : DeleteMcp(sessionId, accepted)
    \/ \E h \in 1..MaxTransports : TransportCloses(h)

SpecMcp == Init /\ [][NextMcp]_vars

\* ---------------------------------------------------- status life-cycle
Live(id) == sessions[id] # 0
Session(id) == objs[sessions[id]]

\* A background workflow of the given id that has started and not finished.
InFlight(i) ==
    tasks[i].kind \in {"deploy", "redeploy", "delete"} /\ tasks[i].pc \notin {"done", "settled"}

StatusPaths ==
    {<<"deploying", "success">>, <<"deploying", "failed">>, <<"success", "redeploying">>,
     <<"redeploying", "success">>, <<"redeploying", "failed">>}

\* C1: the status of a session changes only along deploying -> success,
\* deploying -> failed, success -> redeploying, redeploying -> success and
\* redeploying -> failed.
C1_StatusPaths ==
    [][\A h \in DOMAIN objs :
          objs'[h].status # objs[h].status =>
              <<objs[h].status, objs'[h].status>> \in StatusPaths]_vars

\* C2: a session in the store whose status is success has an instanceName
\* and a dnsName.
C2_SuccessHasNames ==
    \A id \in Ids :
        Live(id) /\ Session(id).status = "success" =>
            Truthy(Session(id).instanceName) /\ Truthy(Session(id).dnsName)

\* C3: no redeploy or deletion workflow is in flight for an id together
\* with another workflow of the same id.
C3_OneWorkflowPerId ==
    \A i, j \in DOMAIN tasks :
        (i # j /\ tasks[i].id = tasks[j].id /\ InFlight(i) /\ InFlight(j))
            => tasks[j].kind = "deploy" /\ tasks[i].kind = "deploy"

\* C4: redeployProject on a session whose status is deploying throws, and
\* the call changes nothing: the status stays deploying and no workflow is
\* launched.
C4_RedeployWhileDeploying ==
    /\ [](\A id \in Ids :
            Live(id) /\ Session(id).status = "deploying" =>
                redeployProjectResult(Store, id) # "ok")
    /\ [][\A id \in Ids :
            (Live(id) /\ Session(id).status = "deploying" /\ RedeployProject(id))
                => UNCHANGED <<objs, tasks>>]_vars

\* ------------------------------------------------------ error capture
\* Task i handles its failure in this step: createVm's .catch handler runs,
\* or the catch block of deployVmAsync is entered.
FailureHandled(i) ==
    /\ tasks[i].kind = "deploy"
    /\ \/ tasks[i].pc = "rejected" /\ tasks'[i].pc = "done"
       \/ tasks[i].errorMessage = None /\ tasks'[i].errorMessage # None

\* The step publishes an error event carrying the failure message.
ErrorPublished(i) ==
    \E k \in (Len(tasks[i].ev) + 1)..Len(tasks'[i].ev) :
        tasks'[i].ev[k] = Event("error", tasks'[i].errorMessage)

\* After the step the stored session of the task's id has status failed and
\* the failure message as its error.
ErrorRecorded(i) ==
    LET id == tasks[i].id IN
    /\ sessions'[id] # 0
    /\ objs'[sessions'[id]].status = "failed"
    /\ objs'[sessions'[id]].error = tasks'[i].errorMessage

\* C5 as stated: whenever the provisioning workflow handles a failure (a
\* throw before its try block included), the session's status becomes
\* failed, its error the failure message, and an error event with that
\* message is published.
C5_FailureCaptured ==
    [][\A i \in DOMAIN tasks :
          FailureHandled(i) => ErrorRecorded(i) /\ ErrorPublished(i)]_vars

\* C5 amended: the error event is published for every handled failure, and
\* status and error are written provided a session of that id is still in
\* the store when the failure is handled.
C5_FailureCapturedIfStored ==
    [][\A i \in DOMAIN tasks :
          FailureHandled(i) =>
              /\ ErrorPublished(i)
              /\ sessions[tasks[i].id] # 0 => ErrorRecorded(i)]_vars

\* A provisioning run that failed in waitForInstanceRunning and one whose
\* failure was recorded in the stored session.
C5_Witness ==
    \E i \in DOMAIN tasks :
        /\ tasks[i].kind = "deploy"
        /\ "waitForInstanceRunning" \in tasks[i].failed
        /\ Live(tasks[i].id)
        /\ Session(tasks[i].id).status = "failed"
        /\ Session(tasks[i].id).error = tasks[i].errorMessage
        /\ \E k \in DOMAIN tasks[i].ev :
               tasks[i].ev[k] = Event("error", tasks[i].errorMessage)

\* --------------------------------------------------- createVm's return
\* C6: when createVm returns, the session of the returned id is in the
\* store with status deploying and empty logs, the workflow is suspended at
\* its first external call or has thrown before it, and no external call
\* has completed.
C6_CreateVmReturnsAtOnce ==
    [][\A id \in Ids, cfg \in Configs :
          createVm(id, cfg) =>
              /\ sessions'[id] # 0
              /\ objs'[sessions'[id]].status = "deploying"
              /\ objs'[sessions'[id]].logs = <<>>
              /\ tasks'[Len(tasks')].pc \in {"createInstance", "rejected"}
              /\ instances' = instances /\ dnsRecords' = dnsRecords]_vars

\* createVm has just returned: its workflow awaits createInstance.
C6_Witness ==
    \E i \in DOMAIN tasks :
        /\ tasks[i].kind = "deploy" /\ tasks[i].pc = "createInstance"
        /\ Live(tasks[i].id)
        /\ sessions[tasks[i].id] = tasks[i].obj
        /\ Session(tasks[i].id).status = "deploying"
        /\ Session(tasks[i].id).logs = <<>>

\* ------------------------------------------------------- unknown ids
\* C7: for an id without a session, getVmStatus, redeployProject and
\* deleteVm throw their not-found error, call no external service, and the
\* call changes no state: no workflow is launched, the store is as before.
C7_UnknownIdRejected ==
    /\ [](\A id \in Ids :
            ~Live(id) =>
                /\ \A ok \in BOOLEAN : getVmStatusResult(Store, id, ok) = "Deployment not found"
                /\ getVmStatusCalls(Store, id) = {}
                /\ redeployProjectResult(Store, id) = "Session not found"
                /\ deleteVmResult(Store, id) = "Session not found")
    /\ [][\A id \in Ids :
            (/\ ~Live(id)
             /\ \/ RedeployProject(id) \/ DeleteVm(id)
                \/ \E ok \in BOOLEAN : GetVmStatus(id, ok))
                => UNCHANGED vars]_vars

\* An id whose session was created and has been removed, with a workflow
\* of it still running.
C7_Witness ==
    \E i \in DOMAIN tasks :
        /\ ~Live(tasks[i].id)
        /\ tasks[i].kind = "deploy" /\ tasks[i].pc = "poll"
        /\ deleteVmResult(Store, tasks[i].id) = "Session not found"

\* -------------------------------------------------------- forceDeleteVm
\* forceDeleteVm, task i, returns in this step.
ForceReturns(i) ==
    /\ tasks'[i].kind = "force" /\ tasks'[i].pc = "done"
    /\ i \in DOMAIN tasks => tasks[i].pc # "done"

\* C8: when forceDeleteVm returns, the session is absent from the store and
\* no idle timer armed for the session it was called on is still armed,
\* whichever of its two external calls failed.
C8_ForceDeleteRemoves ==
    [][\A i \in DOMAIN tasks' :
          ForceReturns(i) =>
              /\ sessions'[tasks'[i].id] = 0
              /\ sessionTimeouts'[tasks'[i].id] = <<>>
              /\ \A k \in DOMAIN pending' :
                     ~(pending'[k].kind = "idle" /\ pending'[k].obj = tasks'[i].obj)]_vars

\* --------------------------------------------------------- idle expiry
\* C9: a timer removes a session only when the session has been idle for
\* the full window, a stored session is never idle for longer than the
\* window, updateSession arms a fresh full window, and getSession changes
\* nothing.
C9_IdleWindow ==
    /\ [](\A id \in Ids : Live(id) => idle[sessions[id]] <= SESSION_TIMEOUT)
    /\ [][\A id \in Ids :
            (/\ Live(id)
             /\ \/ IdleTimerFires(id)
                \/ \E k \in DOMAIN pending : pending[k].id = id /\ LeakedTimerFires(k))
                => idle[sessions[id]] = SESSION_TIMEOUT]_vars
    /\ [][\A id \in Ids, upd \in Updates :
            (Live(id) /\ StoreUpdate(id, upd))
                => sessionTimeouts'[id] = <<SESSION_TIMEOUT>>]_vars
    /\ [][\A id \in Ids : StoreGet(id) => UNCHANGED <<sessionTimeouts, pending>>]_vars

\* ------------------------------------------------------ event delivery
\* The published events among the frames written to connection c.
Received(c) == SelectSeq(conns[c].rx, LAMBDA f : f.type \in PublishTypes)

\* C10: a handler registered on the channel of an id has received exactly
\* the events published for the id since its registration (up to its
\* removal), each once and in the order of publication; none published
\* before its registration.
C10_DeliveredOnceInOrder ==
    \A c \in DOMAIN conns :
        conns[c].channel[1] = "deployment" =>
            LET id == conns[c].channel[2]
                last == IF conns[c].open THEN seqno[id] ELSE conns[c].until
            IN  /\ Len(Received(c)) = last - conns[c].since
                /\ \A k \in DOMAIN Received(c) : Received(c)[k].msg = conns[c].since + k

\* Two handlers of one id, the second registered after the first event
\* was published: the first has received two events, the second one.
C10_Witness ==
    \E c, d \in DOMAIN conns :
        /\ conns[c].channel = Channel("deployment", "d1") /\ conns[c].open
        /\ conns[d].channel = Channel("deployment", "d1") /\ conns[d].open
        /\ conns[c].since = 0 /\ conns[d].since = 1
        /\ Len(Received(c)) = 2 /\ Len(Received(d)) = 1

\* ------------------------------------------- the transport.ts endpoint
\* C11: a client connected to the /sse/:sessionId endpoint of transport.ts
\* has received every event published for its id through emitEvent since
\* it connected (up to its disconnection).
C11_TransportReceives ==
    \A c \in DOMAIN conns :
        conns[c].channel[1] = "session" =>
            LET id == conns[c].channel[2]
                last == IF conns[c].open THEN seqno[id] ELSE conns[c].until
            IN  Len(Received(c)) = last - conns[c].since

\* The frames of the given type among those written to connection c.
FramesOfType(c, type) == SelectSeq(conns[c].rx, LAMBDA f : f.type = type)

\* C12: a subscription to the transport.ts endpoint writes one connected
\* frame carrying the id, followed by one status frame exactly when a
\* session of the id exists at that moment; on every connection the
\* connected frame is the first and only one, a status frame can only be
\* the second frame, and so both precede every published event.
C12_ConnectedThenStatus ==
    /\ [][\A id \in Ids :
            SseConnectTransport(id) =>
                conns'[Len(conns')].rx =
                    <<Event("connected", id)>> \o
                    (IF Live(id) THEN <<Event("status", Session(id).status)>> ELSE <<>>)]_vars
    /\ [](\A c \in DOMAIN conns :
            /\ conns[c].rx[1] = Event("connected", conns[c].channel[2])
            /\ Len(FramesOfType(c, "connected")) = 1
            /\ Len(FramesOfType(c, "status")) <= 1
            /\ \A k \in DOMAIN conns[c].rx :
                   conns[c].rx[k].type = "status" =>
                       k = 2 /\ conns[c].channel[1] = "session")

\* Two subscriptions to the transport.ts endpoint: one for an id that has a
\* session, which got the connected frame and the status snapshot, and one
\* for an id without a session, which got the connected frame only.
C12_Witness ==
    \E c, d \in DOMAIN conns :
        /\ conns[c].channel = Channel("session", "d1")
        /\ conns[c].rx = <<Event("connected", "d1"), Event("status", "deploying")>>
        /\ conns[d].channel = Channel("session", "d2")
        /\ conns[d].rx = <<Event("connected", "d2")>>

\* -------------------------------------------------------- compensation
\* C13: when the provisioning workflow handles a failure of a step after
\* createInstance succeeded, the stored session gets status failed and the
\* failure message as its error, and the workflow calls deleteInstance for
\* the instance it created.
C13_FailureCompensated ==
    [][\A i \in DOMAIN tasks :
          (FailureHandled(i) /\ tasks[i].pc \notin {"rejected", "createInstance"}) =>
              /\ ErrorRecorded(i)
              /\ tasks'[i].pc = "cleanupInstance"
              /\ tasks'[i].arg = tasks[i].name]_vars

\* A compensation call of task i throws in this step.
CleanupFails(i) ==
    /\ tasks[i].kind = "deploy"
    /\ tasks[i].pc \in {"cleanupInstance", "cleanupDns"}
    /\ tasks'[i].failed # tasks[i].failed

\* The events task i publishes in this step.
NewEvents(i) == SubSeq(tasks'[i].ev, Len(tasks[i].ev) + 1, Len(tasks'[i].ev))

\* C14: when a compensation call fails, the step publishes a progress event
\* and no error event, and a stored session keeps status failed and the
\* message of the original failure as its error.
C14_CompensationFailureIsWarning ==
    [][\A i \in DOMAIN tasks :
          CleanupFails(i) =>
              /\ \E k \in DOMAIN NewEvents(i) : NewEvents(i)[k].type = "progress"
              /\ \A k \in DOMAIN NewEvents(i) : NewEvents(i)[k].type # "error"
              /\ sessions'[tasks[i].id] # 0 =>
                     /\ objs'[sessions'[tasks[i].id]].status = "failed"
                     /\ objs'[sessions'[tasks[i].id]].error = tasks[i].errorMessage]_vars

\* ----------------------------------------------------------- happy path
\* A provisioning run that has reached its end with no failed call and
\* every setup command exiting with code 0.
HappyRun(i) ==
    /\ tasks[i].kind = "deploy" /\ tasks[i].pc = "done"
    /\ tasks[i].errorMessage = None /\ tasks[i].failed = {}
    /\ \A k \in DOMAIN tasks[i].ev :
           tasks[i].ev[k].type = "log" => tasks[i].ev[k].msg.code = 0

\* The events of a run in which every call succeeds, ending with complete.
HappyEvents ==
    <<Event("progress", "Initializing deployment..."),
      Event("progress", "Creating Lightsail instance"),
      Event("progress", "Waiting for instance to be ready..."),
      Event("progress", "Instance ready at IP"),
      Event("progress", "Opening firewall ports..."),
      Event("progress", "Waiting for instance initialization..."),
      Event("progress", "Connecting via SSH..."),
      Event("progress", "Setting up environment and deploying application...")>>
    \o [k \in 1..NumSetupCommands |-> Event("log", CommandLog(k, "ok"))]
    \o <<Event("progress", "Creating DNS record..."),
         Event("complete", "deployed")>>

\* C15: a provisioning run in which every call succeeds has published the
\* milestone progress events in workflow order, one log event per setup log
\* entry, the DNS progress event and then the complete event as its last
\* event, and the session's status is success.
C15_HappyPathEvents ==
    \A i \in DOMAIN tasks :
        HappyRun(i) =>
            /\ tasks[i].ev = HappyEvents
            /\ Live(tasks[i].id) /\ Session(tasks[i].id).status = "success"

\* ------------------------------------------- missing resource information
HasInstanceAndIp(id) == Truthy(Session(id).instanceName) /\ Truthy(Session(id).publicIp)

\* C16: on a stored session redeployProject is accepted exactly when
\* instanceName and publicIp are set and deleteVm exactly when instanceName
\* is set; a rejected call changes nothing (session, workflows, external
\* resources); an accepted redeployProject has set the status to
\* redeploying and launched the redeploy workflow when it returns.
C16_MissingInfoRejected ==
    /\ [](\A id \in Ids :
            Live(id) =>
                /\ redeployProjectResult(Store, id) = "ok" <=> HasInstanceAndIp(id)
                /\ ~HasInstanceAndIp(id) =>
                       redeployProjectResult(Store, id) =
                           "Deployment information not found in session"
                /\ deleteVmResult(Store, id) = "ok" <=> Truthy(Session(id).instanceName)
                /\ ~Truthy(Session(id).instanceName) =>
                       deleteVmResult(Store, id) = "No instance found to delete")
    /\ [][\A id \in Ids :
            (Live(id) /\ ~HasInstanceAndIp(id) /\ RedeployProject(id))
                => UNCHANGED vars]_vars
    /\ [][\A id \in Ids :
            (Live(id) /\ ~Truthy(Session(id).instanceName) /\ DeleteVm(id))
                => UNCHANGED vars]_vars
    /\ [][\A id \in Ids :
            (Live(id) /\ HasInstanceAndIp(id) /\ RedeployProject(id)) =>
                /\ objs'[sessions[id]].status = "redeploying"
                /\ Len(tasks') = Len(tasks) + 1
                /\ tasks'[Len(tasks')].kind = "redeploy"
                /\ tasks'[Len(tasks')].pc = "connect"]_vars

\* An accepted redeployProject has returned: the session is redeploying and
\* its workflow awaits the SSH connection; the session has both fields.
C16_Witness ==
    \E i \in DOMAIN tasks :
        /\ tasks[i].kind = "redeploy" /\ tasks[i].pc = "connect"
        /\ Live(tasks[i].id)
        /\ sessions[tasks[i].id] = tasks[i].obj
        /\ Session(tasks[i].id).status = "redeploying"
        /\ HasInstanceAndIp(tasks[i].id)

\* ------------------------------------------------------ redeploy workflow
\* The redeploy workflow, task i, reaches its end in this step.
RedeployEnds(i) ==
    /\ tasks[i].kind = "redeploy"
    /\ tasks[i].pc \in {"connect", "exec"} /\ tasks'[i].pc = "done"

\* The step leaves the session of the task's id with status success and a
\* later lastDeployedAt, or with status failed and the thrown message as
\* its error.
RedeployRecorded(i) ==
    LET id == tasks[i].id IN
    /\ sessions[id] # 0 /\ sessions'[id] = sessions[id]
    /\ \/ /\ tasks'[i].errorMessage = None
          /\ objs'[sessions[id]].status = "success"
          /\ objs'[sessions[id]].lastDeployedAt > objs[sessions[id]].lastDeployedAt
       \/ /\ tasks'[i].errorMessage # None
          /\ objs'[sessions[id]].status = "failed"
          /\ objs'[sessions[id]].error = tasks'[i].errorMessage

\* No step of a redeploy workflow deletes an instance or a DNS record or
\* changes the instanceName, publicIp or dnsName of any session.
RedeployTouchesNoResource ==
    \A i \in DOMAIN tasks :
        (tasks[i].kind = "redeploy" /\ tasks'[i] # tasks[i]) =>
            /\ instances' = instances /\ dnsRecords' = dnsRecords
            /\ \A h \in DOMAIN objs :
                   /\ objs'[h].instanceName = objs[h].instanceName
                   /\ objs'[h].publicIp = objs[h].publicIp
                   /\ objs'[h].dnsName = objs[h].dnsName

\* An event of the given type is among those task i publishes in this step.
Publishes(i, type) == \E k \in DOMAIN NewEvents(i) : NewEvents(i)[k].type = type

\* C17 as stated: when the redeploy workflow ends, the session has status
\* success and a refreshed lastDeployedAt (connect and the commands
\* returned) or status failed and the error (a step threw); the workflow
\* deletes no resource and changes no resource field.
C17_RedeployOutcome ==
    [][/\ \A i \in DOMAIN tasks : RedeployEnds(i) => RedeployRecorded(i)
       /\ RedeployTouchesNoResource]_vars

\* C17 amended: the outcome is written provided a session of the id is in
\* the store when the workflow ends; the complete event (on success) or the
\* error event (on a throw) is published either way.
C17_RedeployOutcomeIfStored ==
    [][/\ \A i \in DOMAIN tasks :
              RedeployEnds(i) =>
                  /\ sessions[tasks[i].id] # 0 => RedeployRecorded(i)
                  /\ IF tasks'[i].errorMessage = None
                     THEN Publishes(i, "complete") /\ ~Publishes(i, "error")
                     ELSE Publishes(i, "error") /\ ~Publishes(i, "complete")
       /\ RedeployTouchesNoResource]_vars

\* A redeploy workflow has just ended without a throw: the session is back
\* to success and lastDeployedAt was written by redeployProject and again
\* at the end.
C17_Witness ==
    \E i \in DOMAIN tasks :
        /\ tasks[i].kind = "redeploy" /\ tasks[i].pc = "done"
        /\ tasks[i].errorMessage = None
        /\ Live(tasks[i].id)
        /\ Session(tasks[i].id).status = "success"
        /\ Session(tasks[i].id).lastDeployedAt = 2
        /\ Session(tasks[i].id).instanceName \in instances

\* ------------------------------------------------------ deletion workflow
\* C18: when deleteInstance throws in the deletion workflow, the step
\* publishes an error event and arms the timer that removes the session
\* after the grace delay.
C18_FailedDeletionStillRemoves ==
    [][\A i \in DOMAIN tasks :
          (/\ tasks[i].kind = "delete" /\ tasks[i].pc = "delInstance"
           /\ "deleteInstance" \in tasks'[i].failed) =>
              /\ Publishes(i, "error")
              /\ \E k \in DOMAIN pending' :
                     /\ k \notin DOMAIN pending
                     /\ pending'[k].kind = "grace"
                     /\ pending'[k].id = tasks[i].id]_vars

\* The grace timer k of a finished deletion fires in this step.
GraceFires(k) ==
    /\ k \in DOMAIN pending
    /\ pending[k].kind = "grace"
    /\ LeakedTimerFires(k)

\* C19: the timer armed after the complete event of a successful deletion
\* finds the deleted session still in the store and removes it, and after
\* the removal no idle timer armed for that session is left, mapped or not.
C19_RemovedAfterComplete ==
    [][\A k \in TimerSlots :
          GraceFires(k) =>
              /\ sessions[pending[k].id] = pending[k].obj
              /\ sessions'[pending[k].id] = 0
              /\ sessionTimeouts'[pending[k].id] = <<>>
              /\ \A j \in DOMAIN pending' :
                     ~(pending'[j].kind = "idle" /\ pending'[j].obj = pending[k].obj)]_vars

\* ----------------------------------------------------------- error field
\* C20: a stored session has an error only if its status is failed.
C20_ErrorOnlyWhenFailed ==
    \A id \in Ids :
        (Live(id) /\ Truthy(Session(id).error)) => Session(id).status = "failed"


\* ------------------------------------------------------------------ C21
IsPrefix(s, t) == Len(s) <= Len(t) /\ SubSeq(t, 1, Len(s)) = s

\* The entries a step has appended to the logs of session object h.
Appended(h) == SubSeq(objs'[h].logs, Len(objs[h].logs) + 1, Len(objs'[h].logs))

\* The entries of logs, each extra error entry aside, are in command order.
InCommandOrder(logs) ==
    \A j, k \in DOMAIN logs : j < k => logs[j].cmd <= logs[k].cmd

\* C21: the logs of a session only grow by appending: whatever step the
\* program takes, the logs a session object held before are a prefix of the
\* logs it holds after, and the entries the step has added are in the order
\* in which their commands were executed.
C21_LogsAppendOnly ==
    [][\A h \in DOMAIN objs :
          /\ IsPrefix(objs[h].logs, objs'[h].logs)
          /\ InCommandOrder(Appended(h))]_vars

\* A session whose logs hold the entries of the setup commands followed by
\* the entry of a redeploy.
C21_Witness ==
    \E h \in DOMAIN objs :
        /\ Len(objs[h].logs) > NumSetupCommands
        /\ \E i \in DOMAIN tasks :
              tasks[i].kind = "redeploy" /\ tasks[i].pc = "done" /\ tasks[i].obj = h
        /\ objs[h].logs[Len(objs[h].logs)] \in {CommandLog(1, o) : o \in CommandOutcomes}
        /\ SubSeq(objs[h].logs, 1, Len(objs[h].logs) - 1)
              \in {executeSetupCommands(1, oc) : oc \in SetupOutcomes}

\* ------------------------------------------------------------------ C22
Range(s) == {s[j] : j \in DOMAIN s}

\* The entries of a setup run are what the workflow stores in the session's
\* logs and publishes as log events, entry by entry and unchanged.
SetupRan == svc.op = "executeSetupCommands"

\* The same run with another GitHub token and nothing else changed.
SameRunWithPat(pat) ==
    setupLogs([svc.config EXCEPT !.githubPat = pat], svc.instanceName, svc.oc)

\* C22: no secret configuration value reaches a log entry or an event: the
\* GitHub token occurs in no entry that a run of the setup commands
\* returns, neither in its message nor in its command, and two runs that
\* differ only in the token return the same entries.
C22_NoSecretInOutput ==
    SetupRan =>
        /\ \A j \in DOMAIN svc.out :
              svc.config.githubPat \notin Range(svc.out[j].message) \cup Range(svc.out[j].command)
        /\ \A pat \in Pats : SameRunWithPat(pat) = svc.out

\* ------------------------------------------------------------------ C23
\* seg with one trailing ".git" removed, said without stripGit: name is seg
\* less its final ".git" if seg ends in ".git", and seg itself otherwise.
IsSegmentLessGit(name, seg) ==
    IF seg # <<>> /\ Last(seg) = ".git" THEN name \o <<".git">> = seg ELSE name = seg

\* The default name of a repository URL as the specification states it.
IsDefaultName(name, url) ==
    IF url = Missing \/ url = EmptyString
    THEN name = Project
    ELSE \/ IsSegmentLessGit(name, Last(url)) /\ name # <<>>
         \/ IsSegmentLessGit(<<>>, Last(url)) /\ name = Project

\* C23: when no explicit name is given, the default name is the last
\* '/'-separated segment of the repository URL with one trailing ".git"
\* removed, and the constant 'project' when the URL is missing or that
\* name is empty; the provisioning workflow uses this default as the
\* instance name.
C23_DefaultName ==
    /\ svc.op = "extractProjectName" => IsDefaultName(svc.out, svc.url)
    /\ (svc.op = "createVm" /\ ~svc.rejected /\ svc.call.projectName = <<>>)
          => /\ IsDefaultName(svc.config.projectName, svc.call.githubRepoUrl)
             /\ ~svc.out.threw /\ svc.out.value = svc.config.projectName
             /\ ~svc.outRepo.threw /\ svc.outRepo.value = svc.config.projectName
    /\ (svc.op = "executeSetupCommands" /\ svc.call.projectName = <<>>)
          => IsDefaultName(svc.instanceName, svc.call.githubRepoUrl)

\* The name 'my-app' derived from 'https://example.com/org/my-app.git', the
\* name 'my-app.git' from the same URL with ".git" twice, and 'project'
\* extracted from a missing URL.
C23_Witness ==
    /\ svc.op = "createVm" /\ ~svc.rejected
    /\ svc.call.projectName = <<>>
    /\ svc.call.githubRepoUrl = UrlOf(<< <<"my-app">>, <<"my-app", ".git", ".git">> >>)
    /\ svc.out.value = <<"my-app", ".git">>
    /\ extractProjectName(UrlOf(<< <<"my-app">>, <<"my-app", ".git">> >>)) = <<"my-app">>
    /\ extractProjectName(Missing) = Project

\* ------------------------------------------------------------------ C24
\* C24: getAllDeployments returns exactly one entry for every session in the
\* store and none for an id without a session, each entry carrying the
\* session's status; getSessionsByStatus(s) returns exactly the stored
\* sessions whose status is s.
C24_ListsMatchStore ==
    /\ \A id \in Ids :
          Cardinality({d \in getAllDeployments(Store) : d.deploymentId = id})
              = IF Live(id) THEN 1 ELSE 0
    /\ \A d \in getAllDeployments(Store) :
          /\ d.deploymentId \in Ids
          /\ d.status = Session(d.deploymentId).status
    /\ \A status \in Statuses :
          getSessionsByStatus(Store, status)
              = {Session(id) : id \in {i \in Ids : Live(i) /\ Session(i).status = status}}

\* Two sessions were created, one has been removed by deleteSession or by
\* its idle timer, and the listing holds the other one only.
C24_Witness ==
    /\ Len(objs) = 2
    /\ objs[1].id # objs[2].id
    /\ \E id \in Ids : Live(id) /\ Session(id).status # "deploying"
    /\ \E id \in Ids : ~Live(id)
    /\ Cardinality(getAllDeployments(Store)) = 1

\* ------------------------------------------------------------------ C25
\* A provisioning or redeploy run whose async function has come to its end
\* or has thrown out of it.
Finished(i) ==
    /\ tasks[i].kind \in {"deploy", "redeploy"}
    /\ tasks[i].pc \in {"done", "rejected"}

\* C25: a provisioning or redeploy workflow that has opened an SSH
\* connection has closed it when it finishes, on the successful path and on
\* every failing one, a failed compensation included; the connection is
\* open only while the remote commands run.
C25_SshClosedAtEnd ==
    \A i \in DOMAIN tasks :
        /\ Finished(i) => tasks[i].ssh # "connected"
        /\ tasks[i].ssh = "connected" => tasks[i].pc \in {"setup", "exec"}

\* A provisioning run that opened a connection, failed at the DNS record,
\* failed again in its compensation, and has ended with the connection closed.
C25_Witness ==
    \E i \in DOMAIN tasks :
        /\ Finished(i) /\ tasks[i].kind = "deploy"
        /\ tasks[i].ssh = "closed"
        /\ {"createDnsRecord", "deleteInstance"} \subseteq tasks[i].failed

\* ------------------------------------------------------------------ C26
Working(id) == Live(id) /\ Session(id).status \in {"deploying", "redeploying"}
Ended(id) == ~Live(id) \/ Session(id).status \in {"success", "failed"}

\* C26: if every external call eventually returns or throws, a session in
\* status deploying or redeploying eventually has status success or failed,
\* or is removed: no session stays in an in-flight status forever.
C26_WorkflowsEnd == \A id \in CallIds : Working(id) ~> Ended(id)

\* A provisioning run and a redeploy of the same session have both come to
\* their end, and the session has left its in-flight status.
C26_Witness ==
    /\ \E i \in DOMAIN tasks : tasks[i].kind = "deploy" /\ tasks[i].pc = "settled"
    /\ \E i \in DOMAIN tasks : tasks[i].kind = "redeploy" /\ tasks[i].pc = "settled"
    /\ \E id \in CallIds : Live(id) /\ Session(id).status \in {"success", "failed"}

\* ------------------------------------------------------------------ C27
WaitCalled == svc.op = "waitForInstanceRunning"

\* Among the first maxAttempts polls of the call: those that report state
\* running together with a public address, and those that throw.
ReadyPolls ==
    {j \in 1..svc.maxAttempts : svc.polls[j].state = "running" /\ svc.polls[j].ip}
ThrowingPolls == {j \in 1..svc.maxAttempts : svc.polls[j] = PollThrows}
Before(j, polls) == \A k \in polls : j < k

DeletionStarts(i) ==
    /\ i \notin DOMAIN tasks /\ i \in DOMAIN tasks'
    /\ tasks'[i].kind = "delete"

\* The deleteDnsRecord call of deletion workflow i throws in this step.
DnsDeletionFails(i) ==
    /\ i \in DOMAIN tasks
    /\ tasks[i].kind = "delete" /\ tasks[i].pc = "delDns"
    /\ "deleteDnsRecord" \in tasks'[i].failed

\* C28: in the deletion workflow a failed DNS deletion is a warning: the
\* step publishes progress events and no error event, leaves the status and
\* the error of every session as they are, and goes on to delete the
\* instance.  The DNS deletion is attempted only when the session has a
\* dnsName, and before the instance deletion, never after it.
C28_DnsFailureIsWarning ==
    [][\A i \in TaskSlots :
          /\ DnsDeletionFails(i) =>
                /\ \E k \in DOMAIN NewEvents(i) :
                      NewEvents(i)[k] = Event("progress", "Warning: Failed to delete DNS record")
                /\ ~Publishes(i, "error")
                /\ \A h \in DOMAIN objs :
                      objs'[h].status = objs[h].status /\ objs'[h].error = objs[h].error
                /\ tasks'[i].pc = "delInstance"
                /\ dnsRecords' = dnsRecords /\ instances' = instances
          /\ DeletionStarts(i) =>
                tasks'[i].pc = IF Truthy(objs[tasks'[i].obj].dnsName)
                               THEN "delDns" ELSE "delInstance"
          /\ (i \in DOMAIN tasks /\ tasks[i].kind = "delete"
                  /\ tasks[i].pc \in {"delInstance", "done", "settled"})
                => tasks'[i].pc # "delDns"]_vars

\* A deletion whose DNS deletion failed and whose instance deletion then went
\* through: the instance is gone, the record is left, the session is not failed.
C28_Witness ==
    \E i \in DOMAIN tasks :
        /\ tasks[i].kind = "delete" /\ tasks[i].pc = "done"
        /\ tasks[i].failed = {"deleteDnsRecord"}
        /\ Live(tasks[i].id) /\ Session(tasks[i].id).status = "success"
        /\ Session(tasks[i].id).error = None
        /\ instances = {} /\ dnsRecords # {}

\* ------------------------------------------------------------------ C29
\* executeSetupCommands of provisioning run i returns in this step.
SetupEnds(i) ==
    /\ i \in DOMAIN tasks
    /\ tasks[i].kind = "deploy" /\ tasks[i].pc = "setup"
    /\ tasks'[i].pc # "setup"

\* The log entries among the events task i publishes in this step.
IsLogEvent(e) == e.type = "log"
NewLogs(i) ==
    LET events == SelectSeq(NewEvents(i), IsLogEvent)
    IN  [k \in DOMAIN events |-> events[k].msg]

IsCommandEntry(log) == log.code # -1
CommandEntries(logs) == SelectSeq(logs, IsCommandEntry)

HasEvent(events, type) == \E k \in DOMAIN events : events[k].type = type

\* One entry per command, in command order, and one extra error entry
\* right after each entry of a command that failed, and nowhere else.
OneEntryPerCommand(logs) ==
    /\ Len(CommandEntries(logs)) = NumSetupCommands
    /\ \A k \in 1..NumSetupCommands : CommandEntries(logs)[k].cmd = k
    /\ \A k \in DOMAIN logs :
          /\ (IsCommandEntry(logs[k]) /\ logs[k].code # 0) =>
                k + 1 \in DOMAIN logs /\ logs[k + 1] = ExtraErrorLog(logs[k].cmd)
          /\ ~IsCommandEntry(logs[k]) =>
                /\ logs[k].type = "error"
                /\ k > 1 /\ IsCommandEntry(logs[k - 1]) /\ logs[k - 1].code # 0
                /\ logs[k - 1].cmd = logs[k].cmd

\* C29: a setup command that fails does not abort the provisioning: when
\* executeSetupCommands returns, every command has run in order and has one
\* log entry, each failed command has one extra error entry after its own,
\* and the workflow publishes no error event, marks no session failed and
\* goes on to create the DNS record.
C29_SetupFailureGoesOn ==
    [][\A i \in TaskSlots :
          SetupEnds(i) =>
              /\ OneEntryPerCommand(NewLogs(i))
              /\ ~Publishes(i, "error")
              /\ \A h \in DOMAIN objs :
                    objs'[h].status = objs[h].status /\ objs'[h].error = objs[h].error
              /\ tasks'[i].pc = "dns"
              /\ tasks'[i].failed = tasks[i].failed]_vars

\* A provisioning run in which the first setup command exited non-zero and
\* the last one threw, and which has ended in success.
C29_Witness ==
    \E i \in DOMAIN tasks :
        /\ tasks[i].kind = "deploy" /\ tasks[i].pc = "done" /\ tasks[i].failed = {}
        /\ HasEvent(tasks[i].ev, "complete")
        /\ Live(tasks[i].id) /\ Session(tasks[i].id).status = "success"
        /\ Len(Session(tasks[i].id).logs) = NumSetupCommands + 2
        /\ Session(tasks[i].id).logs[1] = CommandLog(1, "nonzero")
        /\ Session(tasks[i].id).logs[2] = ExtraErrorLog(1)
        /\ Session(tasks[i].id).logs[3] = CommandLog(2, "ok")

\* ------------------------------------------------------------------ C30
IsTerminalEvent(e) == e.type \in {"complete", "error"}

\* C30: within one workflow run at most one terminal event is published:
\* one complete event or one error event, never both and never two errors.
C30_OneTerminalEvent ==
    \A i \in DOMAIN tasks : Len(SelectSeq(tasks[i].ev, IsTerminalEvent)) <= 1

\* ------------------------------------------------------------------ C31
\* The session object h is stored before and after the step.
StaysStored(h) == \E id \in Ids : sessions[id] = h /\ sessions'[id] = h

\* A provisioning workflow that has created its instance and not yet failed.
HasCreated(i) ==
    /\ tasks[i].kind = "deploy"
    /\ tasks[i].pc \in {"poll", "openPorts", "settle", "connect", "setup", "dns"}

\* The session a workflow was started on is stored and has no instanceName,
\* while the instance that workflow created exists.
InstanceWithoutName ==
    \E i \in DOMAIN tasks :
        /\ HasCreated(i)
        /\ sessions[tasks[i].id] = tasks[i].obj
        /\ tasks[i].name \in instances
        /\ ~Truthy(objs[tasks[i].obj].instanceName)

\* C31: once a session's instanceName is set, no step changes or clears it
\* while the session stays stored; and no stored session is without an
\* instanceName while the instance its own workflow created exists.
C31_InstanceNameSetOnce ==
    [][/\ \A h \in DOMAIN objs :
              StaysStored(h) /\ Truthy(objs[h].instanceName)
                  => objs'[h].instanceName = objs[h].instanceName
       /\ ~InstanceWithoutName']_vars

\* ------------------------------------------------------------------ C32
\* The handlers registered on a channel.
Handlers(ls, ch) == {ls[ch][k] : k \in DOMAIN ls[ch]}

\* Connection c is closed in this step.
Disconnects(c) == conns[c].open /\ ~conns'[c].open

\* An event is published for id in this step.
Published(id) == seqno'[id] = seqno[id] + 1

\* C32: a disconnection takes exactly the connection's own handler off its
\* channel and leaves every other handler and connection as it was; a
\* closed connection is written no further frame; an event published for
\* an id is written to every connection whose handler is on the id's
\* deployment channel, whatever other connections have closed before; and
\* all of this whether or not a session of the id is stored.
C32_DisconnectRemovesOwnHandler ==
    [][/\ \A c \in DOMAIN conns :
              Disconnects(c) =>
                  /\ c \in Handlers(listeners, conns[c].channel)
                  /\ \A ch \in Channels :
                         /\ Handlers(listeners', ch) = Handlers(listeners, ch) \ {c}
                         /\ Len(listeners'[ch]) = Cardinality(Handlers(listeners', ch))
                  /\ \A d \in DOMAIN conns : d # c => conns'[d] = conns[d]
                  /\ UNCHANGED <<sessions, objs, sessionTimeouts, pending>>
       /\ \A c \in DOMAIN conns : ~conns[c].open => conns'[c].rx = conns[c].rx
       /\ \A id \in Ids :
              Published(id) =>
                  \A d \in DOMAIN conns :
                      conns[d].open /\ conns[d].channel = Channel("deployment", id)
                          => /\ Len(conns'[d].rx) = Len(conns[d].rx) + 1
                             /\ conns'[d].rx[Len(conns'[d].rx)].msg = seqno'[id]]_vars

\* Two clients of d1's deployment channel; the first has disconnected
\* after one event, when no session of d1 was stored (any more); the second
\* has received that event and the one published after the disconnection.
C32_Witness ==
    \E c, d \in DOMAIN conns :
        /\ conns[c].channel = Channel("deployment", "d1") /\ ~conns[c].open
        /\ conns[d].channel = Channel("deployment", "d1") /\ conns[d].open
        /\ conns[c].since = 0 /\ conns[c].until = 1 /\ Len(Received(c)) = 1
        /\ conns[d].since = 0 /\ Len(Received(d)) = 2
        /\ listeners[Channel("deployment", "d1")] = <<d>>
        /\ Len(objs) = 1 /\ ~Live("d1")

\* ------------------------------------------------------------------ C33
\* A SessionManager method is called for id, or a timer armed for a
\* session of id fires.
OperationOn(id) ==
    \/ \E cfg \in Configs : StoreCreate(id, cfg)
    \/ StoreUpdate(id, [instanceName |-> "app"])
    \/ StoreDelete(id)
    \/ StoreEmitLog(id)
    \/ StoreEmitError(id)
    \/ StoreEmitComplete(id)
    \/ IdleExpiry(id)
    \/ \E k \in DOMAIN pending : pending[k].id = id /\ PendingExpiry(k)

TimersOf(p, id) == SelectSeq(p, LAMBDA timer : timer.id = id)

\* The step leaves the session stored under id, all its fields with the
\* logs, and the timers armed for id as they were.
SessionUntouched(id) ==
    /\ sessions'[id] = sessions[id]
    /\ sessions[id] # 0 => objs'[sessions[id]] = objs[sessions[id]]
    /\ sessionTimeouts'[id] = sessionTimeouts[id]
    /\ TimersOf(pending', id) = TimersOf(pending, id)

\* The step writes nothing to the connections subscribed to id.
NothingDeliveredTo(id) ==
    \A c \in DOMAIN conns : conns[c].channel[2] = id => conns'[c] = conns[c]

\* C33: an operation on the session of one id leaves the session of every
\* other id, its logs and its idle timers unchanged, and an event published
\* for one id is delivered to no handler subscribed to another id.
C33_SessionsIndependent ==
    [][\A a, b \in Ids :
          (a # b /\ OperationOn(a)) => SessionUntouched(b) /\ NothingDeliveredTo(b)]_vars

\* Both sessions are stored; d1 has got a log entry and failed, and its
\* subscriber has received the two events; d2 is as it was created and its
\* subscriber has been written nothing but the connected frame.
C33_Witness ==
    /\ Live("d1") /\ Live("d2")
    /\ Session("d1").status = "failed" /\ Len(Session("d1").logs) = 1
    /\ Session("d2") = NewSession("d2", [name |-> "app"])
    /\ sessionTimeouts["d2"] = <<SESSION_TIMEOUT>>
    /\ seqno["d1"] = 2 /\ seqno["d2"] = 0
    /\ \E c, d \in DOMAIN conns :
           /\ conns[c].channel = Channel("deployment", "d1") /\ Len(conns[c].rx) = 3
           /\ conns[d].channel = Channel("deployment", "d2") /\ conns[d].open
           /\ conns[d].rx = <<Event("connected", "d2")>>

\* ------------------------------------------------------------------ C34
ConnectCalled == svc.op = "connect"

\* key is sshKey with every backslash-n turned into a newline and nothing
\* else changed.
IsUnescaped(key, sshKey) ==
    /\ Len(key) = Len(sshKey)
    /\ \A k \in DOMAIN sshKey :
           key[k] = (IF sshKey[k] = EscapedNewline THEN Newline ELSE sshKey[k])

\* The number of quotes stripped from the two ends of key: one at the start
\* if it starts with a quote, one at the end if what is left ends with one.
LeadingQuote(key) == IF key # <<>> /\ key[1] = Quote THEN 1 ELSE 0
TrailingQuote(key) ==
    IF Len(key) > LeadingQuote(key) /\ key[Len(key)] = Quote THEN 1 ELSE 0

\* The normal form of sshKey, piece by piece.
NormalForm(sshKey) ==
    LET n == Len(sshKey) - LeadingQuote(sshKey) - TrailingQuote(sshKey) IN
    [k \in 1..n |->
        LET piece == sshKey[k + LeadingQuote(sshKey)] IN
        IF piece = EscapedNewline THEN Newline ELSE piece]

\* C34: connect uses the key with every backslash-n turned into a newline
\* and one leading and one trailing double quote stripped; a key without
\* the -----BEGIN marker is rejected with an error, no connection is
\* attempted and the service stays not connected, so executeCommand then
\* raises 'SSH not connected'; a key with the marker is the key the
\* connection is attempted with.
C34_KeyNormalised ==
    ConnectCalled =>
        LET key == NormalForm(svc.sshKey) IN
        IF \E k \in DOMAIN key : key[k] = BeginMarker
        THEN /\ svc.out.attempted /\ svc.out.privateKey = key
             /\ svc.out.connected = svc.reachable
             /\ svc.out.threw = ~svc.reachable
        ELSE /\ svc.out.threw /\ ~svc.out.attempted /\ ~svc.out.connected
             /\ svc.then = "SSH not connected"

\* A key with two leading quotes, the marker and an escaped newline is used
\* with one of the quotes stripped and the newline in place.
C34_Witness ==
    /\ ConnectCalled
    /\ svc.sshKey = <<Quote, Quote, BeginMarker, EscapedNewline>>
    /\ svc.out.privateKey = <<Quote, BeginMarker, Newline>>
    /\ svc.out.connected /\ svc.then = "execCommand"

\* ------------------------------------------------------------------ C35
\* The step answers a request; mcp'.res is the answer.
Answers(method) ==
    \/ /\ method = "POST"
       /\ \E sessionId \in SessionIdHeaders, isInit, accepted \in BOOLEAN :
              PostMcp(sessionId, isInit, accepted)
    \/ /\ method = "GET" /\ \E sessionId \in SessionIdHeaders : GetMcp(sessionId)
    \/ /\ method = "DELETE"
       /\ \E sessionId \in SessionIdHeaders, accepted \in BOOLEAN : DeleteMcp(sessionId, accepted)

\* C35: a request whose mcp-session-id header names no registered transport
\* is answered 400 and constructs no transport, initialize request or not;
\* a transport is constructed and registered only by a POST initialize
\* request without a session id; a request with a registered session id is
\* handled by the transport registered under it; once that transport has
\* closed, the id is no longer registered.
C35_TransportRegistry ==
    [][/\ \A method \in {"POST", "GET", "DELETE"} :
              Answers(method) /\ mcp'.res.req.method = method =>
                  LET req == mcp'.res.req IN
                  /\ (Given(req.sessionId) /\ ~Registered(mcp.transports, req.sessionId))
                         => /\ mcp'.res.status = 400
                            /\ mcp'.objs = mcp.objs /\ mcp'.transports = mcp.transports
                  /\ Registered(mcp.transports, req.sessionId)
                         => /\ mcp'.res.by = mcp.transports[req.sessionId]
                            /\ mcp'.objs[mcp'.res.by].sessionId = req.sessionId
       /\ (Len(mcp'.objs) > Len(mcp.objs) \/ \E u \in Uuids : mcp.transports[u] = 0
                                                             /\ mcp'.transports[u] # 0)
              => /\ mcp'.res.req.method = "POST" /\ mcp'.res.req.isInit
                 /\ ~Given(mcp'.res.req.sessionId)
       /\ \A h \in DOMAIN mcp'.objs :
              mcp'.objs[h].closed => ~Registered(mcp'.transports, mcp'.objs[h].sessionId)]_vars

\* ------------------------------------------------------------------ C36
\* createVm is called for id in this step.
CreateCalled(id) ==
    \E cfg \in Configs : CreateVm(id, cfg) \/ CreateVmWithId(id, cfg)

\* The idle timers armed for id that are in no map.
IdleTimersOf(p, id) == SelectSeq(p, LAMBDA timer : timer.id = id /\ timer.kind = "idle")

\* C36: an id that has no stored session gets one only by createSession:
\* every other step, the updateSession, emitLog, emitError and emitComplete
\* calls of a workflow still running for the id included, leaves the id
\* without a session, arms no idle timer for it and writes nothing to the
\* session objects that were stored under it.
C36_RemovedStaysRemoved ==
    [][\A id \in Ids :
          ~Live(id) =>
              /\ sessions'[id] # 0 => CreateCalled(id)
              /\ sessions'[id] = 0 =>
                     /\ sessionTimeouts'[id] = <<>>
                     /\ Len(IdleTimersOf(pending', id)) <= Len(IdleTimersOf(pending, id))
                     /\ \A h \in DOMAIN objs' :
                            objs'[h].id = id => h \in DOMAIN objs /\ objs'[h] = objs[h]]_vars

\* A provisioning workflow has failed after its session was removed: it
\* has published the error, the id has no session and no timer, and the
\* session it was started on is as the removal left it.
C36_Witness ==
    \E i \in DOMAIN tasks :
        /\ tasks[i].kind = "deploy" /\ tasks[i].pc = "done"
        /\ tasks[i].failed = {"openAllPorts"}
        /\ HasEvent(tasks[i].ev, "error")
        /\ ~Live(tasks[i].id) /\ sessionTimeouts[tasks[i].id] = <<>>
        /\ Len(objs) = 1
        /\ objs[1].status = "deploying" /\ objs[1].error = None
        /\ Truthy(objs[1].publicIp)

\* ------------------------------------------------------------------ C37
\* C37: a provisioning workflow that fails after it has created its
\* instance calls deleteInstance for that instance, also when its session
\* has been removed in the meantime.
C37_RemovedSessionCompensated ==
    [][\A i \in DOMAIN tasks :
          (FailureHandled(i) /\ HasCreated(i)) =>
              /\ tasks'[i].pc = "cleanupInstance"
              /\ tasks'[i].arg = tasks[i].name]_vars

\* ------------------------------------------------------------------ C38
\* The idle timers armed for id: the mapped one and those in no map.
ArmedIdleTimers(id) == Len(sessionTimeouts[id]) + Len(IdleTimersOf(pending, id))

\* C38: a stored session has exactly one armed idle timer, also when it was
\* created under an id that had a live session, and that timer has the
\* session's own idle window left to run: the window less the time since
\* its creation or last update.
C38_OneIdleTimer ==
    \A id \in Ids :
        Live(id) =>
            /\ ArmedIdleTimers(id) = 1
            /\ sessionTimeouts[id] = <<SESSION_TIMEOUT - idle[sessions[id]]>>

\* ------------------------------------------------------------------ C39
\* C39: the instance that a stored session names exists, and deleteVm and
\* redeployProject are accepted only for a session whose instance exists.
C39_NamedInstanceExists ==
    \A id \in Ids :
        /\ (Live(id) /\ Truthy(Session(id).instanceName))
               => Session(id).instanceName \in instances
        /\ (deleteVmResult(Store, id) = "ok" \/ redeployProjectResult(Store, id) = "ok")
               => Session(id).instanceName \in instances

\* ------------------------------------------------------------------ C40
\* The provisioning workflow of task i has passed the construction of its
\* EncryptionService and published its first progress event.
ReachedFirstMilestone(i) ==
    /\ tasks[i].pc # "rejected"
    /\ tasks[i].ev # <<>>
    /\ Head(tasks[i].ev) = Event("progress", "Initializing deployment...")

\* C40: with ENCRYPTION_KEY unset the built-in default key passes the
\* constructor's length check, and every provisioning workflow started
\* reaches its first milestone.
C40_DefaultKeyAccepted ==
    envKeyLen = 0 =>
        \A i \in DOMAIN tasks :
            (tasks[i].kind = "deploy" /\ tasks[i].pc # "settled") => ReachedFirstMilestone(i)

====
